---- MODULE Spec2Model ----
(***************************************************************************)
(* A model of the calendar engine of jalali-pandas: the leap-year oracle,  *)
(* the Jalali <-> Julian-Day-Number converter, the Gregorian <-> Jalali    *)
(* conversion service with its lookup cache, and the calendar offsets.     *)
(*                                                                         *)
(* The module holds three specifications over one set of variables:       *)
(*   SpecCal    the pure calendar and conversion functions, applied to     *)
(*              dates drawn from bounded year windows;                     *)
(*   SpecCache  threads running the batch conversion functions and the     *)
(*              one-time build of the lookup tables;                       *)
(*   SpecOff    the offsets applied to timestamps.                         *)
(* The variables a specification does not use keep their initial value.    *)
(***************************************************************************)
EXTENDS Integers, Sequences, FiniteSets

VARIABLES
    \* ---- SpecCal
    cdate,      \* the Jalali date under examination
    cjdn,       \* jalali_to_jdn(cdate), 0 before the conversion ran
    cback,      \* jdn_to_jalali(cjdn), NoDate before it ran
    pdate,      \* the calendar day before cdate (NoDate when none was visited)
    pjdn,       \* jalali_to_jdn(pdate)
    cgreg,      \* jalali_to_gregorian_scalar(cdate)
    cjal,       \* gregorian_to_jalali_scalar(cgreg)
    gdate,      \* a Gregorian input date
    gjal,       \* gregorian_to_jalali_scalar(gdate)
    gback,      \* jalali_to_gregorian_scalar(gjal)
    cgregv,     \* jalali_to_gregorian_vectorized([cdate])[0]
    cjalv,      \* gregorian_to_jalali_vectorized([cgregv])[0]
    gjalv,      \* gregorian_to_jalali_vectorized([gdate])[0]
    gbackv,     \* jalali_to_gregorian_vectorized([gjalv])[0]
    cweek,      \* week_of_year(cdate), 0 before it ran
    pweek,      \* week_of_year(pdate)
    cylen,      \* jalali_to_jdn of the next year's first day minus this year's
    \* ---- core/conversion.py: the module's globals
    lookupReady,    \* _LOOKUP_READY
    j2gTable,       \* _JALALI_TO_GREGORIAN_LOOKUP (the Jalali years it holds)
    g2jTable,       \* _GREGORIAN_TO_JALALI_LOOKUP (the Jalali years it holds)
    \* ---- SpecCache
    lockHolder,     \* the thread holding _LOOKUP_LOCK, 0 when free
    builds,         \* how many times the filling body of _ensure_lookup_tables ran
    th,             \* each thread's position and locals
    \* ---- SpecOff
    ts,         \* the timestamp an offset is applied to
    off,        \* the offset: its class, n, normalize and (JalaliWeek) weekday
    op,         \* the operation that ran: "none", "add", "rollforward", "rollback"
    res,        \* the timestamp the operation returned
    res2,       \* the timestamp a second operation returned when given res
    \* ---- SpecFreq
    freq_str,   \* the string given to parse_jalali_frequency
    parsed,     \* what parse_jalali_frequency returned or raised
    \* ---- SpecStamp
    args,       \* the components given to the JalaliTimestamp constructor
    made,       \* the timestamp constructed, or the error raised
    sop,        \* the operation then run on it: "none", "replace", ...
    kw,         \* the keyword arguments of replace
    changed,    \* what that operation returned or raised
    \* ---- SpecCmp
    lhs,        \* the left operand: a JalaliTimestamp or JalaliNaT
    rhs,        \* the right operand
    cmp,        \* the outcomes of lhs < rhs, <=, >, >= and ==
    arith,      \* the outcomes of lhs + rhs and lhs - rhs
    \* ---- SpecStr
    sts,         \* the timestamp that strftime formatted
    sfmt,        \* the format given to strptime
    date_string, \* the string given to strptime
    sresult,     \* what strptime returned or raised
    \* ---- SpecBatch
    items,      \* the sequence given to to_jalali_datetime
    bformat,    \* its format argument (<<>> for None)
    berrors,    \* its errors argument
    bpos,       \* the position of the loop of _convert_sequence
    bresults,   \* the list results
    bout,       \* what to_jalali_datetime returned or raised
    \* ---- SpecRange
    rstart,     \* start of jalali_date_range
    rend,       \* end
    roff,       \* the offset freq stands for
    rpc,        \* where _generate_range is: "start", "loop", "inclusive",
                \* "done", "raised"
    rcurrent,   \* current
    rdates,     \* dates, as the loop fills it
    rreturned,  \* the list returned
    \* ---- SpecGroup
    gindex,     \* the DatetimeIndex given to the resampler (pandas Timestamps)
    goff,       \* the offset of the frequency
    glabels,    \* the group labels computed, <<>> before
    \* ---- SpecReg
    offset_aliases,     \* _JALALI_OFFSET_ALIASES: alias -> class
    offset_to_alias,    \* _JALALI_OFFSET_TO_ALIAS: class -> alias
    \* ---- SpecName
    noff,       \* the offset whose freqstr is taken
    nstr,       \* offset.freqstr, <<>> before
    nparsed     \* what parse_jalali_frequency(nstr) returns or raises

calVars == <<cdate, cjdn, cback, pdate, pjdn, cgreg, cjal, gdate, gjal, gback,
             cgregv, cjalv, gjalv, gbackv, cweek, pweek, cylen>>

tableVars == <<lookupReady, j2gTable, g2jTable>>

cacheVars == <<lockHolder, builds, th>>

offVars == <<ts, off, op, res, res2>>

freqVars == <<freq_str, parsed>>

stampVars == <<args, made, sop, kw, changed>>

cmpVars == <<lhs, rhs, cmp, arith>>

strVars == <<sts, sfmt, date_string, sresult>>

\* the state of the api layer and of the string conversions
batchVars == <<items, bformat, berrors, bpos, bresults, bout>>

rangeVars == <<rstart, rend, roff, rpc, rcurrent, rdates, rreturned>>

groupVars == <<gindex, goff, glabels>>

regVars == <<offset_aliases, offset_to_alias>>

nameVars == <<noff, nstr, nparsed>>

apiVars == <<strVars, batchVars, rangeVars, groupVars, regVars, nameVars>>

vars ==
    <<calVars, tableVars, cacheVars, offVars, freqVars, stampVars, cmpVars,
      apiVars>>

\* what the actions of each specification leave alone
notCal == <<tableVars, cacheVars, offVars, freqVars, stampVars, cmpVars,
    apiVars>>
notCache == <<calVars, offVars, freqVars, stampVars, cmpVars,
    apiVars>>
notOff == <<calVars, tableVars, cacheVars, freqVars, stampVars, cmpVars,
    apiVars>>
notFreq == <<calVars, tableVars, cacheVars, offVars, stampVars, cmpVars,
    apiVars>>
notStamp == <<calVars, tableVars, cacheVars, offVars, freqVars, cmpVars,
    apiVars>>
notCmp == <<calVars, tableVars, cacheVars, offVars, freqVars, stampVars,
    apiVars>>
coreVars ==
    <<calVars, tableVars, cacheVars, offVars, freqVars, stampVars, cmpVars>>

(***************************************************************************)
(* Bounds of the model.                                                    *)
(***************************************************************************)
\* SpecCal examines the years COMMON_JALALI_YEAR_START .. +YearSpan ...
YearSpan == 40
\* ... and the years -NegSpan .. 0 (non-positive years).
NegSpan == 3

(***************************************************************************)
(* Program constants.                                                      *)
(***************************************************************************)
COMMON_JALALI_YEAR_START == 1300

\* calendar.py: MONTH_LENGTHS, MONTH_STARTS, LEAP_YEAR_REMAINDERS
MONTH_LENGTHS == <<31, 31, 31, 31, 31, 31, 30, 30, 30, 30, 30, 29>>
MONTH_STARTS == <<0, 31, 62, 93, 124, 155, 186, 216, 246, 276, 306, 336>>
LEAP_YEAR_REMAINDERS == {1, 5, 9, 13, 17, 22, 26, 30}

Min(a, b) == IF a < b THEN a ELSE b

Date(y, m, d) == [year |-> y, month |-> m, day |-> d]
\* "no date": never a valid date (month 0)
NoDate == Date(0, 0, 0)
\* the outcome of a call that raised ValueError
ValueError == Date(0, 0, -1)

(***************************************************************************)
(* core/calendar.py: the leap-year oracle.                                 *)
(***************************************************************************)
is_leap_year(year) == (year % 33) \in LEAP_YEAR_REMAINDERS

days_in_year(year) == IF is_leap_year(year) THEN 366 ELSE 365

days_in_month_esfand_29(year, month) == MONTH_LENGTHS[month]

\* defined for 1 <= month <= 12; the code raises ValueError otherwise
days_in_month(year, month) ==
    IF month = 12
    THEN (IF is_leap_year(year) THEN 30 ELSE 29)
    ELSE MONTH_LENGTHS[month]

\* validate_jalali_date: TRUE, or FALSE where the code raises ValueError
validate_jalali_date(year, month, day) ==
    /\ 1 <= month /\ month <= 12
    /\ 1 <= day /\ day <= days_in_month(year, month)

(***************************************************************************)
(* core/calendar.py: the ordinal (Julian Day Number) converter.            *)
(***************************************************************************)
jalali_to_jdn(year, month, day) ==
    LET a == IF year > 0 THEN year - 474 ELSE year - 473
        b == a % 2820
    IN  day
        + (month - 1) * 30
        + Min(6, month - 1)
        + ((b * 682 - 110) \div 2816)
        + (b - 1) * 365
        + (a \div 2820) * 1029983
        + 2121445

days_to_year_start(b) == 1 + ((b * 682 - 110) \div 2816) + (b - 1) * 365

\* the binary search of jdn_to_jalali: the largest b in lo..hi whose year
\* starts at or before day_in_cycle
RECURSIVE year_search(_, _, _)
year_search(lo, hi, day_in_cycle) ==
    IF lo < hi
    THEN LET mid == (lo + hi + 1) \div 2
         IN  IF days_to_year_start(mid) <= day_in_cycle
             THEN year_search(mid, hi, day_in_cycle)
             ELSE year_search(lo, mid - 1, day_in_cycle)
    ELSE lo

jdn_to_jalali(jdn) ==
    LET jdn_offset == jdn - 2121445
        cycle_2820 == jdn_offset \div 1029983
        day_in_cycle == jdn_offset % 1029983
        year_in_cycle == year_search(0, 2820, day_in_cycle)
        remaining_days == day_in_cycle - days_to_year_start(year_in_cycle)
        year == cycle_2820 * 2820 + year_in_cycle + 474
    IN  IF remaining_days < 186
        THEN Date(year, (remaining_days \div 31) + 1, (remaining_days % 31) + 1)
        ELSE IF remaining_days - 186 < 150
             THEN Date(year, ((remaining_days - 186) \div 30) + 7,
                       ((remaining_days - 186) % 30) + 1)
             ELSE Date(year, 12, remaining_days - 186 - 150 + 1)

\* weekday_of_jalali: 0 = Saturday .. 6 = Friday
weekday_of_jalali(year, month, day) == (jalali_to_jdn(year, month, day) + 2) % 7

day_of_year(year, month, day) == MONTH_STARTS[month] + day

\* week_of_year: the day of the year shifted by the weekday of the year's
\* first day, in whole weeks
week_of_year(year, month, day) ==
    LET doy == day_of_year(year, month, day)
        first_day_weekday == weekday_of_jalali(year, 1, 1)
    IN  (doy + first_day_weekday - 1) \div 7 + 1

(***************************************************************************)
(* The external jdatetime library, which core/conversion.py and            *)
(* core/timestamp.py call for every Gregorian <-> Jalali conversion:       *)
(* jdatetime.date(y, m, d).togregorian() and jdatetime.date.fromgregorian. *)
(* A Jalali day number on the 33-year cycle (eight leap years per cycle),  *)
(* the fixed offset 79 between the two calendars' day numbers, and the     *)
(* proleptic Gregorian day number counted from 1600-01-01.                 *)
(***************************************************************************)
G_DAYS_IN_MONTH == <<31, 28, 31, 30, 31, 30, 31, 31, 30, 31, 30, 31>>

g_is_leap(gy) == (gy % 4 = 0 /\ gy % 100 # 0) \/ gy % 400 = 0

g_days_in_month(gy, gm) ==
    IF gm = 2 /\ g_is_leap(gy) THEN 29 ELSE G_DAYS_IN_MONTH[gm]

\* datetime.date(y, m, d) accepts exactly these
g_valid(gy, gm, gd) ==
    /\ 1 <= gy /\ gy <= 9999
    /\ 1 <= gm /\ gm <= 12
    /\ 1 <= gd /\ gd <= g_days_in_month(gy, gm)

\* jdatetime.date(y, m, d) accepts exactly these (MINYEAR 1, MAXYEAR 9377)
jd_valid(jy, jm, jd) ==
    /\ 1 <= jy /\ jy <= 9377
    /\ 1 <= jm /\ jm <= 12
    /\ 1 <= jd
    /\ jd <= (IF jm = 12 /\ (jy % 33) \in {1, 5, 9, 13, 17, 22, 26, 30}
              THEN 30 ELSE MONTH_LENGTHS[jm])

\* days of the first k Gregorian months of a non-leap year
RECURSIVE g_month_sum(_)
g_month_sum(k) == IF k = 0 THEN 0 ELSE g_month_sum(k - 1) + G_DAYS_IN_MONTH[k]

\* the month loop of JalaliToGregorian: <<month index from 0, day from 0>>
RECURSIVE g_month_walk(_, _, _)
g_month_walk(i, day_no, leap) ==
    LET len == G_DAYS_IN_MONTH[i + 1] + (IF i = 1 /\ leap THEN 1 ELSE 0)
    IN  IF day_no >= len THEN g_month_walk(i + 1, day_no - len, leap)
        ELSE <<i, day_no>>

\* the month loop of GregorianToJalali
RECURSIVE j_month_walk(_, _)
j_month_walk(i, day_no) ==
    IF i < 11 /\ day_no >= MONTH_LENGTHS[i + 1]
    THEN j_month_walk(i + 1, day_no - MONTH_LENGTHS[i + 1])
    ELSE <<i, day_no>>

\* day number of a Jalali date, 0 on 1 Farvardin 979
j_day_no(jy, jm, jd) ==
    LET y == jy - 979
    IN  365 * y + (y \div 33) * 8 + (((y % 33) + 3) \div 4)
        + MONTH_STARTS[jm] + (jd - 1)

\* day number of a Gregorian date, 0 on 1600-01-01
g_day_no(gy, gm, gd) ==
    LET y == gy - 1600
    IN  365 * y + ((y + 3) \div 4) - ((y + 99) \div 100) + ((y + 399) \div 400)
        + g_month_sum(gm - 1)
        + (IF gm - 1 > 1 /\ g_is_leap(y) THEN 1 ELSE 0)
        + (gd - 1)

\* the Gregorian date of a day number
g_from_day_no(n) ==
    LET gy0 == 1600 + 400 * (n \div 146097)
        d0 == n % 146097
        cent == d0 >= 36525
        d1 == IF cent THEN (d0 - 1) % 36524 ELSE d0
        gy1 == IF cent THEN gy0 + 100 * ((d0 - 1) \div 36524) ELSE gy0
        d2 == IF cent /\ d1 >= 365 THEN d1 + 1 ELSE d1
        leap1 == ~(cent /\ d1 < 365)
        gy2 == gy1 + 4 * (d2 \div 1461)
        d3 == d2 % 1461
        late == d3 >= 366
        leap2 == leap1 /\ ~late
        gy3 == IF late THEN gy2 + ((d3 - 1) \div 365) ELSE gy2
        d4 == IF late THEN (d3 - 1) % 365 ELSE d3
        md == g_month_walk(0, d4, leap2)
    IN  Date(gy3, md[1] + 1, md[2] + 1)

\* the Jalali date of a day number
j_from_day_no(n) ==
    LET j_np == n \div 12053
        d0 == n % 12053
        jy0 == 979 + 33 * j_np + 4 * (d0 \div 1461)
        d1 == d0 % 1461
        late == d1 >= 366
        jy1 == IF late THEN jy0 + ((d1 - 1) \div 365) ELSE jy0
        d2 == IF late THEN (d1 - 1) % 365 ELSE d1
        md == j_month_walk(0, d2)
    IN  Date(jy1, md[1] + 1, md[2] + 1)

\* jdatetime.date(jy, jm, jd).togregorian(); ValueError for an invalid date
jd_togregorian(jy, jm, jd) ==
    IF jd_valid(jy, jm, jd)
    THEN g_from_day_no(j_day_no(jy, jm, jd) + 79)
    ELSE ValueError

\* jdatetime.date.fromgregorian(date=date(gy, gm, gd))
jd_fromgregorian(gy, gm, gd) ==
    IF g_valid(gy, gm, gd)
    THEN j_from_day_no(g_day_no(gy, gm, gd) - 79)
    ELSE ValueError

(***************************************************************************)
(* core/conversion.py: the lookup tables and the scalar conversions.       *)
(*                                                                         *)
(* A lookup table is represented by the set of Jalali years whose dates it *)
(* holds: the tables are filled year by year from one pure function, so    *)
(* the years determine the contents.  {} is the empty dictionary.          *)
(* The model's tables cover COMMON_JALALI_YEAR_START .. +CacheSpan.        *)
(***************************************************************************)
CacheSpan == 1

COMMON_JALALI_YEAR_END == COMMON_JALALI_YEAR_START + CacheSpan

CacheYears == COMMON_JALALI_YEAR_START .. COMMON_JALALI_YEAR_END

DateLT(a, b) ==
    \/ a.year < b.year
    \/ a.year = b.year /\ a.month < b.month
    \/ a.year = b.year /\ a.month = b.month /\ a.day < b.day

\* the dates the loops of _ensure_lookup_tables visit in year y
DatesOfYear(y) ==
    {d \in [year : {y}, month : 1..12, day : 1..31] :
        d.day <= days_in_month(d.year, d.month)}

\* every (g_key, j_key) the build writes, in the whole window
LookupPairs ==
    UNION {{[g |-> jd_togregorian(d.year, d.month, d.day), j |-> d] :
                d \in DatesOfYear(y)} : y \in CacheYears}

\* the build storing the Gregorian key with day and month exchanged
JalaliLookupGet_swapped(years, key) ==
    IF key.year \in years /\ validate_jalali_date(key.year, key.month, key.day)
    THEN LET g == jd_togregorian(key.year, key.month, key.day)
         IN  Date(g.year, g.day, g.month)
    ELSE NoDate

\* _JALALI_TO_GREGORIAN_LOOKUP.get(key) of a table holding `years`;
\* NoDate is None
JalaliLookupGet(years, key) ==
    IF key.year \in years /\ validate_jalali_date(key.year, key.month, key.day)
    THEN jd_togregorian(key.year, key.month, key.day)
    ELSE NoDate

\* _GREGORIAN_TO_JALALI_LOOKUP.get(key): the entry written last for key
GregorianLookupGet(years, key) ==
    LET hits == {p \in LookupPairs : p.g = key /\ p.j.year \in years}
    IN  IF hits = {} THEN NoDate
        ELSE (CHOOSE p \in hits : \A q \in hits : ~DateLT(p.j, q.j)).j

\* a slip in unpacking the library's answer: day and month exchanged
jalali_to_gregorian_scalar_swapped(ready, table, year, month, day) ==
    LET cached == IF ready THEN JalaliLookupGet(table, Date(year, month, day))
                  ELSE NoDate
        g == jd_togregorian(year, month, day)
    IN  IF cached # NoDate THEN cached
        ELSE IF g = ValueError THEN g ELSE Date(g.year, g.day, g.month)

\* jalali_to_gregorian_scalar, reading _LOOKUP_READY = ready and the
\* published table
jalali_to_gregorian_scalar(ready, table, year, month, day) ==
    LET cached == IF ready THEN JalaliLookupGet(table, Date(year, month, day))
                  ELSE NoDate
    IN  IF cached # NoDate THEN cached
        ELSE jd_togregorian(year, month, day)

gregorian_to_jalali_scalar(ready, table, year, month, day) ==
    LET cached == IF ready THEN GregorianLookupGet(table, Date(year, month, day))
                  ELSE NoDate
    IN  IF cached # NoDate THEN cached
        ELSE jd_fromgregorian(year, month, day)

\* one element of jalali_to_gregorian_vectorized: has_lookup and lookup are
\* the function's local `lookup` (None, or the table read after the flag);
\* ready and table are the globals the scalar fallback reads
jalali_to_gregorian_vectorized_elem(has_lookup, lookup, ready, table, key) ==
    LET cached == IF has_lookup THEN JalaliLookupGet(lookup, key) ELSE NoDate
    IN  IF cached # NoDate THEN cached
        ELSE jalali_to_gregorian_scalar(ready, table, key.year, key.month, key.day)

gregorian_to_jalali_vectorized_elem(has_lookup, lookup, ready, table, key) ==
    LET cached == IF has_lookup THEN GregorianLookupGet(lookup, key) ELSE NoDate
    IN  IF cached # NoDate THEN cached
        ELSE gregorian_to_jalali_scalar(ready, table, key.year, key.month, key.day)

(***************************************************************************)
(* core/timestamp.py: the JalaliTimestamp value.                           *)
(***************************************************************************)
Stamp(y, m, d, h, mi, sec, us, ns, tz) ==
    [year |-> y, month |-> m, day |-> d, hour |-> h, minute |-> mi,
     second |-> sec, microsecond |-> us, nanosecond |-> ns, tzinfo |-> tz]

\* no timestamp (nothing returned yet)
NoStamp == Stamp(0, 0, 0, 0, 0, 0, 0, 0, "none")
\* the constructor raised ValueError
StampError == Stamp(0, 0, -1, 0, 0, 0, 0, 0, "none")

\* a constructor that brings the day down to the month's length
JalaliTimestamp_clamped(y, m, d, h, mi, sec, us, ns, tz) ==
    IF /\ 1 <= m /\ m <= 12 /\ 1 <= d
       /\ 0 <= h /\ h <= 23 /\ 0 <= mi /\ mi <= 59 /\ 0 <= sec /\ sec <= 59
       /\ 0 <= us /\ us <= 999999 /\ 0 <= ns /\ ns <= 999
    THEN Stamp(y, m, Min(d, days_in_month(y, m)), h, mi, sec, us, ns, tz)
    ELSE StampError

\* JalaliTimestamp.__init__: the components are validated, never clamped
JalaliTimestamp(y, m, d, h, mi, sec, us, ns, tz) ==
    IF /\ validate_jalali_date(y, m, d)
       /\ 0 <= h /\ h <= 23
       /\ 0 <= mi /\ mi <= 59
       /\ 0 <= sec /\ sec <= 59
       /\ 0 <= us /\ us <= 999999
       /\ 0 <= ns /\ ns <= 999
    THEN Stamp(y, m, d, h, mi, sec, us, ns, tz)
    ELSE StampError

DateOf(t) == Date(t.year, t.month, t.day)

\* JalaliTimestamp.dayofweek
dayofweek(t) == weekday_of_jalali(t.year, t.month, t.day)

\* the keyword argument f of a call, or the default when it is not given
Given(kwargs, f, default) == IF f \in DOMAIN kwargs THEN kwargs[f] ELSE default

\* JalaliTimestamp.replace(**kwargs): the constructor on the given or the
\* current components (tzinfo is kept)
replace(t, kwargs) ==
    JalaliTimestamp(Given(kwargs, "year", t.year),
                    Given(kwargs, "month", t.month),
                    Given(kwargs, "day", t.day),
                    Given(kwargs, "hour", t.hour),
                    Given(kwargs, "minute", t.minute),
                    Given(kwargs, "second", t.second),
                    Given(kwargs, "microsecond", t.microsecond),
                    Given(kwargs, "nanosecond", t.nanosecond),
                    t.tzinfo)

\* JalaliTimestamp.normalize: replace(hour=0, ..., nanosecond=0)
normalize(t) ==
    IF t = StampError THEN t
    ELSE replace(t, [hour |-> 0, minute |-> 0, second |-> 0,
                     microsecond |-> 0, nanosecond |-> 0])

\* to_gregorian() + timedelta(days=k), then from_gregorian: the Jalali date
\* goes to Gregorian through the library, k days are added to the Gregorian
\* date, and the sum comes back through the library; the time of day, the
\* nanoseconds and the timezone are carried along
ShiftDays(t, k) ==
    LET g == jd_togregorian(t.year, t.month, t.day)
        g2 == g_from_day_no(g_day_no(g.year, g.month, g.day) + k)
        j == jd_fromgregorian(g2.year, g2.month, g2.day)
    IN  IF g = ValueError \/ j = ValueError THEN StampError
        ELSE JalaliTimestamp(j.year, j.month, j.day, t.hour, t.minute, t.second,
                             t.microsecond, t.nanosecond, t.tzinfo)

\* the day count of a timestamp's date in the Gregorian domain, as
\* to_gregorian() gives it
GregorianDays(t) ==
    LET g == jd_togregorian(t.year, t.month, t.day)
    IN  g_day_no(g.year, g.month, g.day)

\* the result of __add__: every time field kept unless normalize
Landed(norm, t, y, m, d) ==
    JalaliTimestamp(y, m, d,
                    IF norm THEN 0 ELSE t.hour,
                    IF norm THEN 0 ELSE t.minute,
                    IF norm THEN 0 ELSE t.second,
                    IF norm THEN 0 ELSE t.microsecond,
                    IF norm THEN 0 ELSE t.nanosecond,
                    t.tzinfo)

\* the result of rollback and of the _get_*_end helpers: microsecond and
\* nanosecond are not passed to the constructor and take its default, 0
LandedCoarse(norm, t, y, m, d) ==
    JalaliTimestamp(y, m, d,
                    IF norm THEN 0 ELSE t.hour,
                    IF norm THEN 0 ELSE t.minute,
                    IF norm THEN 0 ELSE t.second,
                    0, 0, t.tzinfo)

(***************************************************************************)
(* offsets/month.py                                                        *)
(***************************************************************************)
JalaliMonthBegin_add_no_carry(n, norm, t) ==
    Landed(norm, t, t.year, ((t.month - 1 + n) % 12) + 1, 1)

JalaliMonthBegin_add(n, norm, t) ==
    LET total_months == t.year * 12 + t.month - 1 + n
    IN  Landed(norm, t, total_months \div 12, (total_months % 12) + 1, 1)

JalaliMonthBegin_is_on_offset(t) == t.day = 1

JalaliMonthBegin_rollforward(n, norm, t) ==
    IF JalaliMonthBegin_is_on_offset(t) THEN t
    ELSE JalaliMonthBegin_add(n, norm, t)

JalaliMonthBegin_rollback(n, norm, t) ==
    IF JalaliMonthBegin_is_on_offset(t) THEN t
    ELSE LandedCoarse(norm, t, t.year, t.month, 1)

JalaliMonthEnd_add_day_kept(n, norm, t) ==
    LET total_months == t.year * 12 + t.month - 1 + n
    IN  Landed(norm, t, total_months \div 12, (total_months % 12) + 1,
               days_in_month(t.year, t.month))

JalaliMonthEnd_add(n, norm, t) ==
    LET total_months == t.year * 12 + t.month - 1 + n
        new_year == total_months \div 12
        new_month == (total_months % 12) + 1
    IN  Landed(norm, t, new_year, new_month, days_in_month(new_year, new_month))

JalaliMonthEnd_is_on_offset(t) == t.day = days_in_month(t.year, t.month)

JalaliMonthEnd_get_month_end(n, norm, t) ==
    LandedCoarse(norm, t, t.year, t.month, days_in_month(t.year, t.month))

JalaliMonthEnd_rollforward(n, norm, t) ==
    IF JalaliMonthEnd_is_on_offset(t) THEN t
    ELSE JalaliMonthEnd_get_month_end(n, norm, t)

JalaliMonthEnd_rollback(n, norm, t) ==
    IF JalaliMonthEnd_is_on_offset(t) THEN t
    ELSE LET new_year == IF t.month = 1 THEN t.year - 1 ELSE t.year
             new_month == IF t.month = 1 THEN 12 ELSE t.month - 1
         IN  LandedCoarse(norm, t, new_year, new_month,
                          days_in_month(new_year, new_month))

(***************************************************************************)
(* offsets/quarter.py                                                      *)
(***************************************************************************)
QUARTER_START_MONTHS == {1, 4, 7, 10}
QUARTER_END_MONTHS == {3, 6, 9, 12}

JalaliQuarterBegin_add(n, norm, t) ==
    LET current_quarter == (t.month - 1) \div 3
        total_quarters == t.year * 4 + current_quarter + n
    IN  Landed(norm, t, total_quarters \div 4, (total_quarters % 4) * 3 + 1, 1)

JalaliQuarterBegin_is_on_offset(t) == t.month \in QUARTER_START_MONTHS /\ t.day = 1

JalaliQuarterBegin_rollforward(n, norm, t) ==
    IF JalaliQuarterBegin_is_on_offset(t) THEN t
    ELSE JalaliQuarterBegin_add(n, norm, t)

JalaliQuarterBegin_rollback(n, norm, t) ==
    IF JalaliQuarterBegin_is_on_offset(t) THEN t
    ELSE LandedCoarse(norm, t, t.year, ((t.month - 1) \div 3) * 3 + 1, 1)

JalaliQuarterEnd_add(n, norm, t) ==
    LET current_quarter == (t.month - 1) \div 3
        total_quarters == t.year * 4 + current_quarter + n
        new_year == total_quarters \div 4
        new_month == ((total_quarters % 4) + 1) * 3
    IN  Landed(norm, t, new_year, new_month, days_in_month(new_year, new_month))

JalaliQuarterEnd_is_on_offset(t) ==
    IF t.month \notin QUARTER_END_MONTHS THEN FALSE
    ELSE t.day = days_in_month(t.year, t.month)

JalaliQuarterEnd_get_quarter_end(n, norm, t) ==
    LET quarter_end_month == (((t.month - 1) \div 3) + 1) * 3
    IN  LandedCoarse(norm, t, t.year, quarter_end_month,
                     days_in_month(t.year, quarter_end_month))

JalaliQuarterEnd_rollforward(n, norm, t) ==
    IF JalaliQuarterEnd_is_on_offset(t) THEN t
    ELSE JalaliQuarterEnd_get_quarter_end(n, norm, t)

JalaliQuarterEnd_rollback(n, norm, t) ==
    IF JalaliQuarterEnd_is_on_offset(t) THEN t
    ELSE LET current_quarter == (t.month - 1) \div 3
             new_year == IF current_quarter = 0 THEN t.year - 1 ELSE t.year
             new_month == IF current_quarter = 0 THEN 12 ELSE current_quarter * 3
         IN  LandedCoarse(norm, t, new_year, new_month,
                          days_in_month(new_year, new_month))

(***************************************************************************)
(* offsets/year.py                                                         *)
(***************************************************************************)
JalaliYearBegin_add(n, norm, t) == Landed(norm, t, t.year + n, 1, 1)

JalaliYearBegin_is_on_offset(t) == t.month = 1 /\ t.day = 1

JalaliYearBegin_rollforward(n, norm, t) ==
    IF JalaliYearBegin_is_on_offset(t) THEN t
    ELSE JalaliYearBegin_add(n, norm, t)

JalaliYearBegin_rollback(n, norm, t) ==
    IF JalaliYearBegin_is_on_offset(t) THEN t
    ELSE LandedCoarse(norm, t, t.year, 1, 1)

JalaliYearEnd_add(n, norm, t) ==
    LET new_year == t.year + n
    IN  Landed(norm, t, new_year, 12, IF is_leap_year(new_year) THEN 30 ELSE 29)

JalaliYearEnd_is_on_offset(t) ==
    IF t.month # 12 THEN FALSE ELSE t.day = days_in_month(t.year, 12)

JalaliYearEnd_get_year_end(n, norm, t) ==
    LandedCoarse(norm, t, t.year, 12, days_in_month(t.year, 12))

JalaliYearEnd_rollforward(n, norm, t) ==
    IF JalaliYearEnd_is_on_offset(t) THEN t
    ELSE JalaliYearEnd_get_year_end(n, norm, t)

JalaliYearEnd_rollback(n, norm, t) ==
    IF JalaliYearEnd_is_on_offset(t) THEN t
    ELSE LET new_year == t.year - 1
         IN  LandedCoarse(norm, t, new_year, 12,
                          IF is_leap_year(new_year) THEN 30 ELSE 29)

(***************************************************************************)
(* offsets/week.py                                                         *)
(***************************************************************************)
JalaliWeek_add(n, norm, weekday, t) ==
    LET current_weekday == dayofweek(t)
        days_to_target == (weekday - current_weekday) % 7
        total_days ==
            IF n > 0
            THEN (IF days_to_target = 0 THEN n * 7
                  ELSE days_to_target + (n - 1) * 7)
            ELSE IF n < 0
            THEN (IF days_to_target = 0 THEN n * 7
                  ELSE (days_to_target - 7) + (n + 1) * 7)
            ELSE days_to_target
        result == ShiftDays(t, total_days)
    IN  IF norm THEN normalize(result) ELSE result

JalaliWeek_is_on_offset(weekday, t) == dayofweek(t) = weekday

JalaliWeek_rollforward(n, norm, weekday, t) ==
    IF JalaliWeek_is_on_offset(weekday, t) THEN t
    ELSE LET d == (weekday - dayofweek(t)) % 7
             days_forward == IF d = 0 THEN 7 ELSE d
             result == ShiftDays(t, days_forward)
         IN  IF norm THEN normalize(result) ELSE result

JalaliWeek_rollback(n, norm, weekday, t) ==
    IF JalaliWeek_is_on_offset(weekday, t) THEN t
    ELSE LET d == (dayofweek(t) - weekday) % 7
             days_back == IF d = 0 THEN 7 ELSE d
             result == ShiftDays(t, 0 - days_back)
         IN  IF norm THEN normalize(result) ELSE result

(***************************************************************************)
(* The offset as a value: its class (named by its _prefix), n, normalize   *)
(* and, for JalaliWeek, the target weekday.                                *)
(***************************************************************************)
Offset(kind, n, norm, weekday) ==
    [kind |-> kind, n |-> n, normalize |-> norm, weekday |-> weekday]

\* offset + timestamp
Add(o, t) ==
    CASE o.kind = "JMS" -> JalaliMonthBegin_add(o.n, o.normalize, t)
      [] o.kind = "JME" -> JalaliMonthEnd_add(o.n, o.normalize, t)
      [] o.kind = "JQS" -> JalaliQuarterBegin_add(o.n, o.normalize, t)
      [] o.kind = "JQE" -> JalaliQuarterEnd_add(o.n, o.normalize, t)
      [] o.kind = "JYS" -> JalaliYearBegin_add(o.n, o.normalize, t)
      [] o.kind = "JYE" -> JalaliYearEnd_add(o.n, o.normalize, t)
      [] o.kind = "JW" -> JalaliWeek_add(o.n, o.normalize, o.weekday, t)

Rollforward(o, t) ==
    CASE o.kind = "JMS" -> JalaliMonthBegin_rollforward(o.n, o.normalize, t)
      [] o.kind = "JME" -> JalaliMonthEnd_rollforward(o.n, o.normalize, t)
      [] o.kind = "JQS" -> JalaliQuarterBegin_rollforward(o.n, o.normalize, t)
      [] o.kind = "JQE" -> JalaliQuarterEnd_rollforward(o.n, o.normalize, t)
      [] o.kind = "JYS" -> JalaliYearBegin_rollforward(o.n, o.normalize, t)
      [] o.kind = "JYE" -> JalaliYearEnd_rollforward(o.n, o.normalize, t)
      [] o.kind = "JW" -> JalaliWeek_rollforward(o.n, o.normalize, o.weekday, t)

Rollback(o, t) ==
    CASE o.kind = "JMS" -> JalaliMonthBegin_rollback(o.n, o.normalize, t)
      [] o.kind = "JME" -> JalaliMonthEnd_rollback(o.n, o.normalize, t)
      [] o.kind = "JQS" -> JalaliQuarterBegin_rollback(o.n, o.normalize, t)
      [] o.kind = "JQE" -> JalaliQuarterEnd_rollback(o.n, o.normalize, t)
      [] o.kind = "JYS" -> JalaliYearBegin_rollback(o.n, o.normalize, t)
      [] o.kind = "JYE" -> JalaliYearEnd_rollback(o.n, o.normalize, t)
      [] o.kind = "JW" -> JalaliWeek_rollback(o.n, o.normalize, o.weekday, t)

IsOnOffset(o, t) ==
    CASE o.kind = "JMS" -> JalaliMonthBegin_is_on_offset(t)
      [] o.kind = "JME" -> JalaliMonthEnd_is_on_offset(t)
      [] o.kind = "JQS" -> JalaliQuarterBegin_is_on_offset(t)
      [] o.kind = "JQE" -> JalaliQuarterEnd_is_on_offset(t)
      [] o.kind = "JYS" -> JalaliYearBegin_is_on_offset(t)
      [] o.kind = "JYE" -> JalaliYearEnd_is_on_offset(t)
      [] o.kind = "JW" -> JalaliWeek_is_on_offset(o.weekday, t)

(***************************************************************************)
(* SpecOff: an offset and a timestamp are drawn, and one of the offset's   *)
(* operations runs on them.                                                *)
(***************************************************************************)
\* the timestamps' years: COMMON_JALALI_YEAR_START .. +OffSpan
OffSpan == 1
\* the offsets' n: -MaxN .. MaxN
MaxN == 2

OffYears == COMMON_JALALI_YEAR_START .. (COMMON_JALALI_YEAR_START + OffSpan)

\* the time of day and timezone of a timestamp: midnight without timezone,
\* or an afternoon with every field set and a timezone
Clocks ==
    {[hour |-> 0, minute |-> 0, second |-> 0, microsecond |-> 0,
      nanosecond |-> 0, tzinfo |-> "none"],
     [hour |-> 13, minute |-> 45, second |-> 30, microsecond |-> 123456,
      nanosecond |-> 789, tzinfo |-> "UTC"]}

Stamps ==
    {JalaliTimestamp(d.year, d.month, d.day, c.hour, c.minute, c.second,
                     c.microsecond, c.nanosecond, c.tzinfo) :
        d \in UNION {DatesOfYear(y) : y \in OffYears}, c \in Clocks}

PeriodKinds == {"JMS", "JME", "JQS", "JQE", "JYS", "JYE"}

Offsets ==
    {Offset(k, n, norm, 0) :
        k \in PeriodKinds, n \in (0 - MaxN) .. MaxN, norm \in BOOLEAN}
    \cup {Offset("JW", n, norm, w) :
        n \in (0 - MaxN) .. MaxN, norm \in BOOLEAN, w \in 0 .. 6}

OffIdle ==
    /\ ts = NoStamp /\ res = NoStamp /\ res2 = NoStamp /\ op = "none"
    /\ off = Offset("JMS", 1, FALSE, 0)

FreqIdle == freq_str = <<>> /\ parsed = [status |-> "none"]

StampIdle ==
    /\ args = NoStamp /\ made = NoStamp /\ changed = NoStamp
    /\ sop = "none" /\ kw = <<>>
    /\ lhs = NoStamp /\ rhs = NoStamp /\ cmp = <<>> /\ arith = <<>>

StrIdle ==
    sts = NoStamp /\ sfmt = <<>> /\ date_string = <<>> /\ sresult = NoStamp

NotReturned == [status |-> "none", error |-> "", value |-> <<>>]

BatchIdle ==
    /\ items = <<>> /\ bformat = <<>> /\ berrors = "" /\ bpos = 0
    /\ bresults = <<>> /\ bout = NotReturned

RangeIdle ==
    /\ rstart = NoStamp /\ rend = NoStamp /\ roff = Offset("JMS", 1, FALSE, 0)
    /\ rpc = "idle" /\ rcurrent = NoStamp /\ rdates = <<>> /\ rreturned = <<>>

GroupIdle ==
    gindex = <<>> /\ goff = Offset("JMS", 1, FALSE, 0) /\ glabels = <<>>

\* _JALALI_OFFSET_ALIASES after _register_default_aliases
JALALI_OFFSET_ALIASES ==
    {[alias |-> <<"J", "M", "E">>, class |-> "JME"],
     [alias |-> <<"J", "M", "S">>, class |-> "JMS"],
     [alias |-> <<"J", "Q", "E">>, class |-> "JQE"],
     [alias |-> <<"J", "Q", "S">>, class |-> "JQS"],
     [alias |-> <<"J", "Y", "E">>, class |-> "JYE"],
     [alias |-> <<"J", "Y", "S">>, class |-> "JYS"],
     [alias |-> <<"J", "W">>, class |-> "JW"]}

\* the registry as the import of jalali_pandas.offsets leaves it
RegIdle ==
    /\ offset_aliases = JALALI_OFFSET_ALIASES
    /\ offset_to_alias =
           {[class |-> e.class, alias |-> e.alias] : e \in JALALI_OFFSET_ALIASES}

NameIdle ==
    noff = Offset("JMS", 1, FALSE, 0) /\ nstr = <<>> /\ nparsed = [status |-> "none"]

ApiIdle ==
    StrIdle /\ BatchIdle /\ RangeIdle /\ GroupIdle /\ RegIdle /\ NameIdle


(***************************************************************************)
(* Threads running the batch conversion functions.                         *)
(*                                                                         *)
(* A thread calls jalali_to_gregorian_vectorized ("j2g") or                *)
(* gregorian_to_jalali_vectorized ("g2j").  Of the batch only two things   *)
(* steer the code: whether `use_lookup and n >= _LOOKUP_MIN_SIZE` holds    *)
(* (big), and the key of the element the loop is at; the elements are      *)
(* independent, so each loop iteration draws its key.  Every read or write *)
(* of a module global is one step.                                         *)
(***************************************************************************)
\* the tables not built (as after import), or built and published
TablesCold == lookupReady = FALSE /\ j2gTable = {} /\ g2jTable = {}

TablesWarm == lookupReady = TRUE /\ j2gTable = CacheYears /\ g2jTable = CacheYears

NThreads == 2

Threads == 1 .. NThreads

\* a date inside the tables' window and one outside it, and their images
JalaliKeys == {Date(COMMON_JALALI_YEAR_START, 12, 30),
               Date(COMMON_JALALI_YEAR_END + 1, 1, 1)}

GregorianKeys == {jd_togregorian(k.year, k.month, k.day) : k \in JalaliKeys}

KeysOf(fn) == IF fn = "j2g" THEN JalaliKeys ELSE GregorianKeys

IdleThread ==
    [pc |-> "idle", fn |-> "j2g", big |-> FALSE, flag |-> FALSE,
     has |-> FALSE, lookup |-> {}, key |-> NoDate, out |-> NoDate,
     via |-> "none", year |-> 0, locJ |-> {}, locG |-> {}]

CacheIdle == lockHolder = 0 /\ builds = 0 /\ th = [t \in Threads |-> IdleThread]

CalIdle ==
    /\ cdate = NoDate /\ cjdn = 0 /\ cback = NoDate
    /\ pdate = NoDate /\ pjdn = 0
    /\ cgreg = NoDate /\ cjal = NoDate
    /\ gdate = NoDate /\ gjal = NoDate /\ gback = NoDate
    /\ cgregv = NoDate /\ cjalv = NoDate
    /\ gjalv = NoDate /\ gbackv = NoDate
    /\ cweek = 0 /\ pweek = 0 /\ cylen = 0

\* nothing of the core layer has run
CoreIdle ==
    TablesCold /\ CacheIdle /\ CalIdle /\ OffIdle /\ FreqIdle /\ StampIdle

CacheInit ==
    TablesCold /\ CacheIdle /\ CalIdle /\ OffIdle /\ FreqIdle /\ StampIdle
    /\ ApiIdle

\* SpecOff starts with the tables cold and no thread running
OffInit ==
    /\ ts \in Stamps
    /\ off \in Offsets
    /\ op = "none"
    /\ res = NoStamp
    /\ res2 = NoStamp
    /\ TablesCold /\ CacheIdle /\ CalIdle /\ FreqIdle /\ StampIdle
    /\ ApiIdle

\* offset + ts
OffAdd ==
    /\ op = "none"
    /\ op' = "add"
    /\ res' = Add(off, ts)
    /\ UNCHANGED <<ts, off, res2, notOff>>

\* offset.rollforward(ts)
OffRollforward ==
    /\ op = "none"
    /\ op' = "rollforward"
    /\ res' = Rollforward(off, ts)
    /\ UNCHANGED <<ts, off, res2, notOff>>

\* offset.rollback(ts)
OffRollback ==
    /\ op = "none"
    /\ op' = "rollback"
    /\ res' = Rollback(off, ts)
    /\ UNCHANGED <<ts, off, res2, notOff>>

\* a negation that keeps n
NegKeepsN(o) == Offset(o.kind, o.n, o.normalize, o.weekday)

\* JalaliOffset.__neg__ (JalaliWeek.__neg__ keeps the weekday)
Neg(o) == Offset(o.kind, 0 - o.n, o.normalize, o.weekday)

\* (-offset) + (offset + ts)
OffNegAdd ==
    /\ op = "add" /\ res # StampError
    /\ op' = "add_neg"
    /\ res2' = Add(Neg(off), res)
    /\ UNCHANGED <<ts, off, res, notOff>>

\* offset.rollforward(offset.rollforward(ts))
OffRollforwardAgain ==
    /\ op = "rollforward" /\ res # StampError
    /\ op' = "rollforward_twice"
    /\ res2' = Rollforward(off, res)
    /\ UNCHANGED <<ts, off, res, notOff>>

\* offset.rollback(offset.rollback(ts))
OffRollbackAgain ==
    /\ op = "rollback" /\ res # StampError
    /\ op' = "rollback_twice"
    /\ res2' = Rollback(off, res)
    /\ UNCHANGED <<ts, off, res, notOff>>

OffNext ==
    \/ OffAdd
    \/ OffRollforward
    \/ OffRollback
    \/ OffNegAdd
    \/ OffRollforwardAgain
    \/ OffRollbackAgain

SpecOff == OffInit /\ [][OffNext]_vars

(***************************************************************************)
(* offsets/aliases.py: frequency strings.  A string is a sequence of       *)
(* one-character strings.                                                  *)
(***************************************************************************)
ASCII_UPPERCASE ==
    {"A", "B", "C", "D", "E", "F", "G", "H", "I", "J", "K", "L", "M",
     "N", "O", "P", "Q", "R", "S", "T", "U", "V", "W", "X", "Y", "Z"}
DIGITS == {"0", "1", "2", "3", "4", "5", "6", "7", "8", "9"}

\* int() of one digit
DigitValue(c) ==
    CASE c = "0" -> 0 [] c = "1" -> 1 [] c = "2" -> 2 [] c = "3" -> 3
      [] c = "4" -> 4 [] c = "5" -> 5 [] c = "6" -> 6 [] c = "7" -> 7
      [] c = "8" -> 8 [] c = "9" -> 9

\* str.upper() on the characters the inputs are drawn from
upper_char(c) ==
    CASE c = "j" -> "J" [] c = "m" -> "M" [] c = "e" -> "E" [] c = "w" -> "W"
      [] OTHER -> c

upper(s) == [i \in 1..Len(s) |-> upper_char(s[i])]

RECURSIVE lstrip(_)
lstrip(s) == IF s # <<>> /\ Head(s) = " " THEN lstrip(Tail(s)) ELSE s

RECURSIVE rstrip(_)
rstrip(s) ==
    IF s # <<>> /\ s[Len(s)] = " " THEN rstrip(SubSeq(s, 1, Len(s) - 1)) ELSE s

\* str.strip()
strip(s) == rstrip(lstrip(s))

\* the length of the run of digits at the start of s: what \d* consumes
RECURSIVE digit_run(_)
digit_run(s) ==
    IF s # <<>> /\ Head(s) \in DIGITS THEN 1 + digit_run(Tail(s)) ELSE 0

\* re.match(r"^(-?)(\d*)([A-Z]+)$", s): the groups, or no match.  Giving the
\* sign or a digit back cannot make [A-Z]+ match, so the greedy split is the
\* only candidate.
re_match(s) ==
    LET has_sign == s # <<>> /\ Head(s) = "-"
        rest == IF has_sign THEN Tail(s) ELSE s
        k == digit_run(rest)
        alias == SubSeq(rest, k + 1, Len(rest))
    IN  IF alias # <<>> /\ \A i \in 1..Len(alias) : alias[i] \in ASCII_UPPERCASE
        THEN [matched |-> TRUE, sign |-> IF has_sign THEN "-" ELSE "",
              num_str |-> SubSeq(rest, 1, k), alias |-> alias]
        ELSE [matched |-> FALSE, sign |-> "", num_str |-> <<>>, alias |-> <<>>]

\* an int() that reads only the last digit
parse_int_last_digit(num_str) == DigitValue(num_str[Len(num_str)])

\* int(num_str) of a non-empty run of digits
RECURSIVE parse_int(_)
parse_int(num_str) ==
    IF Len(num_str) = 1 THEN DigitValue(num_str[1])
    ELSE 10 * parse_int(SubSeq(num_str, 1, Len(num_str) - 1))
         + DigitValue(num_str[Len(num_str)])

\* get_jalali_offset(alias): the class, or "None"
get_jalali_offset(alias) ==
    IF \E e \in JALALI_OFFSET_ALIASES : e.alias = alias
    THEN (CHOOSE e \in JALALI_OFFSET_ALIASES : e.alias = alias).class
    ELSE "None"

\* what parse_jalali_frequency returns, or the ValueError it raises
Parsed(o) == [status |-> "ok", off |-> o]
CannotParse == [status |-> "cannot_parse"]
UnknownAlias == [status |-> "unknown_alias"]
NotParsed == [status |-> "none"]

parse_jalali_frequency(str) ==
    LET match == re_match(upper(strip(str)))
        offset_class == get_jalali_offset(match.alias)
        n == IF match.num_str # <<>> THEN parse_int(match.num_str) ELSE 1
    IN  IF ~match.matched THEN CannotParse
        ELSE IF offset_class = "None" THEN UnknownAlias
        ELSE Parsed(Offset(offset_class, IF match.sign = "-" THEN 0 - n ELSE n,
                           FALSE, 0))

(***************************************************************************)
(* SpecFreq: a string is drawn and parsed.                                 *)
(***************************************************************************)
\* the longest string drawn
MaxFreqLen == 5

FreqChars == {" ", "-", "0", "2", "J", "M", "E", "W", "j"}

FreqStrings == UNION {[1..k -> FreqChars] : k \in 0..MaxFreqLen}

FreqInit ==
    /\ freq_str \in FreqStrings
    /\ parsed = NotParsed
    /\ TablesCold /\ CacheIdle /\ CalIdle /\ OffIdle /\ StampIdle
    /\ ApiIdle

\* parse_jalali_frequency(freq_str)
FreqParse ==
    /\ parsed = NotParsed
    /\ parsed' = parse_jalali_frequency(freq_str)
    /\ UNCHANGED <<freq_str, notFreq>>

FreqNext == FreqParse

SpecFreq == FreqInit /\ [][FreqNext]_vars

(***************************************************************************)
(* SpecStamp: a JalaliTimestamp is constructed from components that may be *)
(* out of range, and one operation that returns a timestamp runs on it.    *)
(***************************************************************************)
ArgMonths == {0, 1, 6, 7, 12, 13}
ArgDays == {0, 1, 29, 30, 31, 32}

Clock(h, mi, sec, us, ns, tz) ==
    [hour |-> h, minute |-> mi, second |-> sec, microsecond |-> us,
     nanosecond |-> ns, tzinfo |-> tz]

\* the valid clocks, the last valid instant of a day, and clocks with one
\* component just outside its range
ArgClocks ==
    Clocks \cup
    {Clock(23, 59, 59, 999999, 999, "none"),
     Clock(24, 0, 0, 0, 0, "none"), Clock(-1, 0, 0, 0, 0, "none"),
     Clock(0, 60, 0, 0, 0, "none"), Clock(0, 0, 60, 0, 0, "none"),
     Clock(0, 0, 0, 1000000, 0, "none"), Clock(0, 0, 0, 0, 1000, "none"),
     Clock(0, 0, 0, 0, -1, "none")}

\* the keyword arguments replace is called with
ReplaceKwargs ==
    {[year |-> y] : y \in OffYears}
    \cup {[month |-> m] : m \in ArgMonths}
    \cup {[day |-> d] : d \in ArgDays}
    \cup {[month |-> m, day |-> d] : m \in {7, 12}, d \in {30, 31}}
    \cup {[hour |-> h] : h \in {-1, 5, 24}}
    \cup {[nanosecond |-> n] : n \in {0, 1000}}

StampInit ==
    /\ args \in {Stamp(y, m, d, c.hour, c.minute, c.second, c.microsecond,
                       c.nanosecond, c.tzinfo) :
                    y \in OffYears, m \in ArgMonths, d \in ArgDays, c \in ArgClocks}
    /\ made = NoStamp /\ changed = NoStamp /\ sop = "none" /\ kw = <<>>
    /\ lhs = NoStamp /\ rhs = NoStamp /\ cmp = <<>> /\ arith = <<>>
    /\ TablesCold /\ CacheIdle /\ CalIdle /\ OffIdle /\ FreqIdle
    /\ ApiIdle

\* JalaliTimestamp(year, month, day, hour, minute, second, microsecond,
\* nanosecond, tzinfo)
StampConstruct ==
    /\ made = NoStamp
    /\ made' = JalaliTimestamp(args.year, args.month, args.day, args.hour,
                               args.minute, args.second, args.microsecond,
                               args.nanosecond, args.tzinfo)
    /\ UNCHANGED <<args, sop, kw, changed, notStamp>>

\* the operations below run on a timestamp that exists
StampExists == made # NoStamp /\ made # StampError /\ sop = "none"

\* made.replace(**kw)
StampReplace ==
    /\ StampExists
    /\ \E k \in ReplaceKwargs :
        /\ kw' = k
        /\ changed' = replace(made, k)
    /\ sop' = "replace"
    /\ UNCHANGED <<args, made, notStamp>>

\* made.normalize()
StampNormalize ==
    /\ StampExists
    /\ changed' = normalize(made)
    /\ sop' = "normalize"
    /\ UNCHANGED <<args, made, kw, notStamp>>

\* offset + made, offset.rollforward(made), offset.rollback(made)
StampOffset ==
    /\ StampExists
    /\ \E o \in Offsets :
        \/ sop' = "add" /\ changed' = Add(o, made)
        \/ sop' = "rollforward" /\ changed' = Rollforward(o, made)
        \/ sop' = "rollback" /\ changed' = Rollback(o, made)
    /\ UNCHANGED <<args, made, kw, notStamp>>

StampNext == StampConstruct \/ StampReplace \/ StampNormalize \/ StampOffset

SpecStamp == StampInit /\ [][StampNext]_vars

(***************************************************************************)
(* core/timestamp.py: comparison and arithmetic of JalaliTimestamp and     *)
(* JalaliNaT.  A method's outcome is "True", "False", "NotImplemented",    *)
(* "TypeError", or for arithmetic the kind of value returned.              *)
(***************************************************************************)
\* the singleton _JalaliNaTType()
JalaliNaT == Stamp(0, 0, 0, 0, 0, 0, 0, 0, "NaT")

Bool(b) == IF b THEN "True" ELSE "False"

\* tzinfo.utcoffset() in minutes, for the fixed-offset zones drawn
UtcOffsetMinutes(tz) == IF tz = "UTC+03:30" THEN 210 ELSE 0

\* to_gregorian(): the pandas Timestamp, as minutes since the day count's
\* origin in UTC (wall clock for a naive value) and the parts below a minute
to_gregorian(t) ==
    [minutes |-> GregorianDays(t) * 1440 + t.hour * 60 + t.minute
                 - UtcOffsetMinutes(t.tzinfo),
     second |-> t.second, microsecond |-> t.microsecond,
     nanosecond |-> t.nanosecond, aware |-> t.tzinfo # "none"]

\* pandas: Timestamp < Timestamp compares instants
InstantLT(p, q) ==
    \/ p.minutes < q.minutes
    \/ p.minutes = q.minutes /\ p.second < q.second
    \/ p.minutes = q.minutes /\ p.second = q.second
       /\ p.microsecond < q.microsecond
    \/ p.minutes = q.minutes /\ p.second = q.second
       /\ p.microsecond = q.microsecond /\ p.nanosecond < q.nanosecond

InstantEQ(p, q) ==
    /\ p.minutes = q.minutes /\ p.second = q.second
    /\ p.microsecond = q.microsecond /\ p.nanosecond = q.nanosecond

\* pandas: an ordering comparison of a naive and an aware Timestamp raises
pd_compare(cop, p, q) ==
    IF p.aware # q.aware THEN "TypeError"
    ELSE CASE cop = "lt" -> Bool(InstantLT(p, q))
           [] cop = "le" -> Bool(InstantLT(p, q) \/ InstantEQ(p, q))
           [] cop = "gt" -> Bool(InstantLT(q, p))
           [] cop = "ge" -> Bool(InstantLT(q, p) \/ InstantEQ(p, q))

\* JalaliTimestamp.__eq__: field by field, tzinfo left out
JalaliTimestamp_eq(a, b) ==
    IF b = JalaliNaT THEN "False"
    ELSE Bool(/\ a.year = b.year /\ a.month = b.month /\ a.day = b.day
              /\ a.hour = b.hour /\ a.minute = b.minute /\ a.second = b.second
              /\ a.microsecond = b.microsecond /\ a.nanosecond = b.nanosecond)

\* JalaliTimestamp.__lt__, __le__, __gt__, __ge__
JalaliTimestamp_order(cop, a, b) ==
    IF b = JalaliNaT THEN "NotImplemented"
    ELSE pd_compare(cop, to_gregorian(a), to_gregorian(b))

\* _JalaliNaTType.__eq__
JalaliNaT_eq(other) == Bool(other = JalaliNaT)

\* _JalaliNaTType.__lt__, __le__, __gt__, __ge__
JalaliNaT_order(cop, other) ==
    CASE cop = "lt" -> "False"
      [] cop = "le" -> Bool(other = JalaliNaT)
      [] cop = "gt" -> "False"
      [] cop = "ge" -> Bool(other = JalaliNaT)

\* the method of x that implements the operator
Method(cop, x, y) ==
    IF x = JalaliNaT
    THEN (IF cop = "eq" THEN JalaliNaT_eq(y) ELSE JalaliNaT_order(cop, y))
    ELSE (IF cop = "eq" THEN JalaliTimestamp_eq(x, y)
          ELSE JalaliTimestamp_order(cop, x, y))

Reflected(cop) ==
    CASE cop = "lt" -> "gt" [] cop = "gt" -> "lt"
      [] cop = "le" -> "ge" [] cop = "ge" -> "le" [] cop = "eq" -> "eq"

\* x cop y as Python evaluates it: x's method, and y's reflected method when
\* x's returns NotImplemented
Compare(cop, x, y) ==
    LET first == Method(cop, x, y)
        second == Method(Reflected(cop), y, x)
    IN  IF first # "NotImplemented" THEN first
        ELSE IF second # "NotImplemented" THEN second
        ELSE "TypeError"

\* JalaliTimestamp.__add__ / __sub__ with a JalaliTimestamp or JalaliNaT on
\* the right; _JalaliNaTType.__add__, __radd__, __sub__, __rsub__
Arith(cop, x, y) ==
    LET first == IF x = JalaliNaT THEN "JalaliNaT"
                 ELSE IF cop = "sub" /\ y # JalaliNaT THEN "Timedelta"
                 ELSE "NotImplemented"
        second == IF y = JalaliNaT THEN "JalaliNaT" ELSE "NotImplemented"
    IN  IF first # "NotImplemented" THEN first
        ELSE IF second # "NotImplemented" THEN second
        ELSE "TypeError"

(***************************************************************************)
(* SpecCmp: two values are drawn, compared and combined.                   *)
(***************************************************************************)
CmpDates ==
    {Date(COMMON_JALALI_YEAR_START, 12, 30),
     Date(COMMON_JALALI_YEAR_START + 1, 1, 1)}

CmpClocks ==
    {Clock(h.hour, h.minute, 0, 0, h.nanosecond, tz) :
        h \in {[hour |-> 0, minute |-> 0, nanosecond |-> 0],
               [hour |-> 0, minute |-> 0, nanosecond |-> 1],
               [hour |-> 3, minute |-> 30, nanosecond |-> 0],
               [hour |-> 20, minute |-> 30, nanosecond |-> 0]},
        tz \in {"none", "UTC", "UTC+03:30"}}

CmpValues ==
    {JalaliTimestamp(d.year, d.month, d.day, c.hour, c.minute, c.second,
                     c.microsecond, c.nanosecond, c.tzinfo) :
        d \in CmpDates, c \in CmpClocks}
    \cup {JalaliNaT}

CmpInit ==
    /\ lhs \in CmpValues
    /\ rhs \in CmpValues
    /\ cmp = <<>> /\ arith = <<>>
    /\ args = NoStamp /\ made = NoStamp /\ changed = NoStamp
    /\ sop = "none" /\ kw = <<>>
    /\ TablesCold /\ CacheIdle /\ CalIdle /\ OffIdle /\ FreqIdle
    /\ ApiIdle

\* lhs < rhs, lhs <= rhs, lhs > rhs, lhs >= rhs, lhs == rhs
CmpCompare ==
    /\ cmp = <<>>
    /\ cmp' = [cop \in {"lt", "le", "gt", "ge", "eq"} |-> Compare(cop, lhs, rhs)]
    /\ UNCHANGED <<lhs, rhs, arith, notCmp>>

\* lhs + rhs, lhs - rhs
CmpArith ==
    /\ arith = <<>>
    /\ arith' = [cop \in {"add", "sub"} |-> Arith(cop, lhs, rhs)]
    /\ UNCHANGED <<lhs, rhs, cmp, notCmp>>

CmpNext == CmpCompare \/ CmpArith

SpecCmp == CmpInit /\ [][CmpNext]_vars

Set(t, r) == th' = [th EXCEPT ![t] = r]

\* the vectorized function is entered: n = len(year); if use_lookup and
\* n >= _LOOKUP_MIN_SIZE: _ensure_lookup_tables()
Call(t) ==
    /\ th[t].pc = "idle"
    /\ \E fn \in {"j2g", "g2j"}, big \in BOOLEAN :
        Set(t, [th[t] EXCEPT !.fn = fn, !.big = big,
                             !.pc = IF big THEN "e_check" ELSE "v_flag"])
    /\ UNCHANGED <<tableVars, lockHolder, builds>>

\* _ensure_lookup_tables: if _LOOKUP_READY: return
EnsureFastPath(t) ==
    /\ th[t].pc = "e_check"
    /\ Set(t, [th[t] EXCEPT !.pc = IF lookupReady THEN "v_flag" ELSE "e_lock"])
    /\ UNCHANGED <<tableVars, lockHolder, builds>>

\* with _LOOKUP_LOCK:
EnsureLock(t) ==
    /\ th[t].pc = "e_lock"
    /\ lockHolder = 0
    /\ lockHolder' = t
    /\ Set(t, [th[t] EXCEPT !.pc = "e_recheck"])
    /\ UNCHANGED <<tableVars, builds>>

SecondCheckOmitted(ready) == FALSE

\* the check repeated under the lock: if _LOOKUP_READY: return
SecondCheck(ready) == ready

EnsureRecheck(t) ==
    /\ th[t].pc = "e_recheck"
    /\ IF SecondCheck(lookupReady)
       THEN /\ lockHolder' = 0
            /\ Set(t, [th[t] EXCEPT !.pc = "v_flag"])
            /\ UNCHANGED builds
       ELSE /\ builds' = builds + 1
            /\ Set(t, [th[t] EXCEPT !.pc = "e_build", !.locJ = {}, !.locG = {},
                                    !.year = COMMON_JALALI_YEAR_START])
            /\ UNCHANGED lockHolder
    /\ UNCHANGED tableVars

\* one iteration of `for year in range(...)`: the year's dates go into the
\* two local dictionaries
EnsureBuildYear(t) ==
    /\ th[t].pc = "e_build"
    /\ IF th[t].year <= COMMON_JALALI_YEAR_END
       THEN Set(t, [th[t] EXCEPT !.locJ = @ \cup {th[t].year},
                                 !.locG = @ \cup {th[t].year},
                                 !.year = @ + 1])
       ELSE Set(t, [th[t] EXCEPT !.pc = "e_pub_j"])
    /\ UNCHANGED <<tableVars, lockHolder, builds>>

\* _JALALI_TO_GREGORIAN_LOOKUP = jalali_to_gregorian
EnsurePublishJalali(t) ==
    /\ th[t].pc = "e_pub_j"
    /\ j2gTable' = th[t].locJ
    /\ Set(t, [th[t] EXCEPT !.pc = "e_pub_g"])
    /\ UNCHANGED <<lookupReady, g2jTable, lockHolder, builds>>

\* _GREGORIAN_TO_JALALI_LOOKUP = gregorian_to_jalali
EnsurePublishGregorian(t) ==
    /\ th[t].pc = "e_pub_g"
    /\ g2jTable' = th[t].locG
    /\ Set(t, [th[t] EXCEPT !.pc = "e_ready"])
    /\ UNCHANGED <<lookupReady, j2gTable, lockHolder, builds>>

\* _LOOKUP_READY = True
EnsureSetReady(t) ==
    /\ th[t].pc = "e_ready"
    /\ lookupReady' = TRUE
    /\ Set(t, [th[t] EXCEPT !.pc = "e_unlock"])
    /\ UNCHANGED <<j2gTable, g2jTable, lockHolder, builds>>

\* the with block ends
EnsureUnlock(t) ==
    /\ th[t].pc = "e_unlock"
    /\ lockHolder' = 0
    /\ Set(t, [th[t] EXCEPT !.pc = "v_flag"])
    /\ UNCHANGED <<tableVars, builds>>

\* lookup = TABLE if _LOOKUP_READY else None: the flag is read first ...
ReadFlag(t) ==
    /\ th[t].pc = "v_flag"
    /\ Set(t, [th[t] EXCEPT !.flag = lookupReady, !.pc = "v_table"])
    /\ UNCHANGED <<tableVars, lockHolder, builds>>

\* ... and the table after it, when the flag was set
ReadTable(t) ==
    /\ th[t].pc = "v_table"
    /\ Set(t, [th[t] EXCEPT
                !.has = th[t].flag,
                !.lookup = IF ~th[t].flag THEN {}
                           ELSE IF th[t].fn = "j2g" THEN j2gTable ELSE g2jTable,
                !.pc = "v_loop"])
    /\ UNCHANGED <<tableVars, lockHolder, builds>>

LocalGet(fn, lookup, key) ==
    IF fn = "j2g" THEN JalaliLookupGet(lookup, key)
    ELSE GregorianLookupGet(lookup, key)

\* one loop iteration: cached = lookup.get(key); a hit is the result, a miss
\* (or no lookup) calls the scalar function
LoopElement(t) ==
    /\ th[t].pc = "v_loop"
    /\ \E k \in KeysOf(th[t].fn) :
        LET cached == IF th[t].has THEN LocalGet(th[t].fn, th[t].lookup, k)
                      ELSE NoDate
        IN  IF cached # NoDate
            THEN Set(t, [th[t] EXCEPT !.key = k, !.out = cached, !.via = "lookup"])
            ELSE Set(t, [th[t] EXCEPT !.key = k, !.out = NoDate, !.via = "none",
                                      !.pc = "s_flag"])
    /\ UNCHANGED <<tableVars, lockHolder, builds>>

\* the scalar function: if _LOOKUP_READY:
ScalarFlag(t) ==
    /\ th[t].pc = "s_flag"
    /\ Set(t, [th[t] EXCEPT !.flag = lookupReady, !.pc = "s_get"])
    /\ UNCHANGED <<tableVars, lockHolder, builds>>

\* the scalar function: cached = TABLE.get(key), else the library
ScalarGet(t) ==
    /\ th[t].pc = "s_get"
    /\ LET k == th[t].key
           table == IF th[t].fn = "j2g" THEN j2gTable ELSE g2jTable
           hit == th[t].flag /\ LocalGet(th[t].fn, table, k) # NoDate
           r == IF th[t].fn = "j2g"
                THEN jalali_to_gregorian_scalar(th[t].flag, table,
                                                k.year, k.month, k.day)
                ELSE gregorian_to_jalali_scalar(th[t].flag, table,
                                                k.year, k.month, k.day)
       IN  Set(t, [th[t] EXCEPT
                    !.out = r,
                    !.via = IF hit THEN "scalar_cache"
                            ELSE IF th[t].flag THEN "miss_fallback"
                            ELSE "cold_fallback",
                    !.pc = "v_loop"])
    /\ UNCHANGED <<tableVars, lockHolder, builds>>

\* the loop ends and the arrays are returned
Return(t) ==
    /\ th[t].pc = "v_loop"
    /\ Set(t, [th[t] EXCEPT !.pc = "done"])
    /\ UNCHANGED <<tableVars, lockHolder, builds>>

CacheNext ==
    \/ \E t \in Threads : Call(t) /\ UNCHANGED notCache
    \/ \E t \in Threads : EnsureFastPath(t) /\ UNCHANGED notCache
    \/ \E t \in Threads : EnsureLock(t) /\ UNCHANGED notCache
    \/ \E t \in Threads : EnsureRecheck(t) /\ UNCHANGED notCache
    \/ \E t \in Threads : EnsureBuildYear(t) /\ UNCHANGED notCache
    \/ \E t \in Threads : EnsurePublishJalali(t) /\ UNCHANGED notCache
    \/ \E t \in Threads : EnsurePublishGregorian(t) /\ UNCHANGED notCache
    \/ \E t \in Threads : EnsureSetReady(t) /\ UNCHANGED notCache
    \/ \E t \in Threads : EnsureUnlock(t) /\ UNCHANGED notCache
    \/ \E t \in Threads : ReadFlag(t) /\ UNCHANGED notCache
    \/ \E t \in Threads : ReadTable(t) /\ UNCHANGED notCache
    \/ \E t \in Threads : LoopElement(t) /\ UNCHANGED notCache
    \/ \E t \in Threads : ScalarFlag(t) /\ UNCHANGED notCache
    \/ \E t \in Threads : ScalarGet(t) /\ UNCHANGED notCache
    \/ \E t \in Threads : Return(t) /\ UNCHANGED notCache

SpecCache == CacheInit /\ [][CacheNext]_vars

\* what the conversion is without any cache: the library's answer
Reference(fn, k) ==
    IF fn = "j2g" THEN jd_togregorian(k.year, k.month, k.day)
    ELSE jd_fromgregorian(k.year, k.month, k.day)

\* C6: the filling body of _ensure_lookup_tables runs at most once, and
\* whoever sees _LOOKUP_READY set sees both tables complete: the published
\* tables are complete whenever the flag is set, and so is every table a
\* reader picked up after reading the flag.
C6_BuildOnceAndPublished ==
    /\ builds <= 1
    /\ lookupReady => (j2gTable = CacheYears /\ g2jTable = CacheYears)
    /\ \A t \in Threads : th[t].has => th[t].lookup = CacheYears

\* two threads asked for the tables, one built them, the other waited for
\* the lock and found them ready
C6_Witness ==
    /\ builds = 1 /\ lookupReady /\ lockHolder = 0
    /\ \A t \in Threads : th[t].big /\ th[t].has /\ th[t].pc = "v_loop"

\* C7: the cache never changes a result: every element a batch function
\* produces -- from its lookup table, from the scalar function's table, or
\* from the fallback before the tables exist or on a miss -- is the value
\* the conversion gives without a cache, also while the tables are built.
C7_CacheTransparent ==
    \A t \in Threads :
        th[t].out # NoDate => th[t].out = Reference(th[t].fn, th[t].key)

\* a reader that started before the build fell back to the scalar function,
\* which by then found the key in the published table, while the builder
\* got a miss for a date outside the window
C7_Witness ==
    \E t, u \in Threads :
        /\ ~th[t].has /\ th[t].via = "scalar_cache"
        /\ th[u].has /\ th[u].via = "miss_fallback"

(***************************************************************************)
(* SpecCal: the pure functions applied to bounded inputs.                  *)
(***************************************************************************)
CalYears == (COMMON_JALALI_YEAR_START .. COMMON_JALALI_YEAR_START + YearSpan)
            \cup ((0 - NegSpan) .. 1)

CalDates == UNION {DatesOfYear(y) : y \in CalYears}

GregYears == (COMMON_JALALI_YEAR_START + 621)
             .. (COMMON_JALALI_YEAR_START + 621 + YearSpan)

GregDates ==
    {d \in [year : GregYears, month : 1..12, day : 1..31] :
        g_valid(d.year, d.month, d.day)}

\* the next calendar day
NextDay(d) ==
    IF d.day < days_in_month(d.year, d.month) THEN Date(d.year, d.month, d.day + 1)
    ELSE IF d.month < 12 THEN Date(d.year, d.month + 1, 1)
    ELSE Date(d.year + 1, 1, 1)

\* the conversion of a Jalali date to Gregorian and back, scalar
JalaliThere(d) ==
    jalali_to_gregorian_scalar(lookupReady, j2gTable, d.year, d.month, d.day)

JalaliBack(g) ==
    IF g = ValueError THEN ValueError
    ELSE gregorian_to_jalali_scalar(lookupReady, g2jTable, g.year, g.month, g.day)

\* the same through the batch functions, on a batch of one element
JalaliThereV(d) ==
    jalali_to_gregorian_vectorized_elem(lookupReady, j2gTable,
                                        lookupReady, j2gTable, d)

JalaliBackV(g) ==
    IF g = ValueError THEN ValueError
    ELSE gregorian_to_jalali_vectorized_elem(lookupReady, g2jTable,
                                             lookupReady, g2jTable, g)

CalInit ==
    /\ TablesCold \/ TablesWarm
    /\ CacheIdle
    /\ OffIdle
    /\ FreqIdle
    /\ StampIdle
    /\ ApiIdle
    /\ \/ cdate \in CalDates /\ gdate = NoDate
       \/ cdate = NoDate /\ gdate \in GregDates
    /\ cjdn = 0 /\ cback = NoDate
    /\ pdate = NoDate /\ pjdn = 0
    /\ cgreg = NoDate /\ cjal = NoDate
    /\ gjal = NoDate /\ gback = NoDate
    /\ cgregv = NoDate /\ cjalv = NoDate
    /\ gjalv = NoDate /\ gbackv = NoDate
    /\ cweek = 0 /\ pweek = 0 /\ cylen = 0

\* jalali_to_jdn, jdn_to_jalali and the conversions on cdate
CalConvert ==
    /\ cdate # NoDate
    /\ cback = NoDate
    /\ cjdn' = jalali_to_jdn(cdate.year, cdate.month, cdate.day)
    /\ cback' = jdn_to_jalali(cjdn')
    /\ cgreg' = JalaliThere(cdate)
    /\ cjal' = JalaliBack(cgreg')
    /\ cgregv' = JalaliThereV(cdate)
    /\ cjalv' = JalaliBackV(cgregv')
    /\ cweek' = week_of_year(cdate.year, cdate.month, cdate.day)
    /\ cylen' = jalali_to_jdn(cdate.year + 1, 1, 1)
                 - jalali_to_jdn(cdate.year, 1, 1)
    /\ UNCHANGED <<cdate, pdate, pjdn, pweek, gdate, gjal, gback, gjalv,
                   gbackv>>
    /\ UNCHANGED notCal

\* step to the next calendar day and convert it
CalNextDay ==
    /\ cdate # NoDate
    /\ NextDay(cdate).year \in CalYears
    /\ pdate' = cdate
    /\ pjdn' = jalali_to_jdn(cdate.year, cdate.month, cdate.day)
    /\ cdate' = NextDay(cdate)
    /\ cjdn' = jalali_to_jdn(cdate'.year, cdate'.month, cdate'.day)
    /\ cback' = jdn_to_jalali(cjdn')
    /\ cgreg' = JalaliThere(cdate')
    /\ cjal' = JalaliBack(cgreg')
    /\ cgregv' = JalaliThereV(cdate')
    /\ cjalv' = JalaliBackV(cgregv')
    /\ pweek' = week_of_year(cdate.year, cdate.month, cdate.day)
    /\ cweek' = week_of_year(cdate'.year, cdate'.month, cdate'.day)
    /\ cylen' = jalali_to_jdn(cdate'.year + 1, 1, 1)
                 - jalali_to_jdn(cdate'.year, 1, 1)
    /\ UNCHANGED <<gdate, gjal, gback, gjalv, gbackv>>
    /\ UNCHANGED notCal

\* the conversions on a Gregorian input
CalGregConvert ==
    /\ gdate # NoDate
    /\ gjal = NoDate
    /\ gjal' = gregorian_to_jalali_scalar(lookupReady, g2jTable,
                                          gdate.year, gdate.month, gdate.day)
    /\ gback' = jalali_to_gregorian_scalar(lookupReady, j2gTable,
                                           gjal'.year, gjal'.month, gjal'.day)
    /\ gjalv' = gregorian_to_jalali_vectorized_elem(lookupReady, g2jTable,
                                                    lookupReady, g2jTable, gdate)
    /\ gbackv' = jalali_to_gregorian_vectorized_elem(lookupReady, j2gTable,
                                                     lookupReady, j2gTable, gjalv')
    /\ UNCHANGED <<cdate, cjdn, cback, pdate, pjdn, cgreg, cjal, cgregv,
                   cjalv, gdate, cweek, pweek, cylen>>
    /\ UNCHANGED notCal

CalNext == CalConvert \/ CalNextDay \/ CalGregConvert

SpecCal == CalInit /\ [][CalNext]_vars

(***************************************************************************)
(* SpecJdn: jalali_to_jdn is given a (year, month, day) that need not be a *)
(* date.                                                                   *)
(***************************************************************************)
\* months and days are drawn up to JdnMargin past their ranges
JdnMargin == 2

\* the value of cjdn when jalali_to_jdn raised instead of returning
JdnError == -1

JdnTriples ==
    {Date(y, m, d) : y \in OffYears,
                     m \in (1 - JdnMargin)..(12 + JdnMargin),
                     d \in (1 - JdnMargin)..(31 + JdnMargin)}

JdnInit ==
    /\ cdate \in JdnTriples
    /\ cjdn = 0 /\ cback = NoDate
    /\ pdate = NoDate /\ pjdn = 0
    /\ cgreg = NoDate /\ cjal = NoDate
    /\ gdate = NoDate /\ gjal = NoDate /\ gback = NoDate
    /\ cgregv = NoDate /\ cjalv = NoDate
    /\ gjalv = NoDate /\ gbackv = NoDate
    /\ cweek = 0 /\ pweek = 0 /\ cylen = 0
    /\ TablesCold /\ CacheIdle /\ OffIdle /\ FreqIdle /\ StampIdle
    /\ ApiIdle

\* jalali_to_jdn(year, month, day): the function has no check and no raise
JdnCall ==
    /\ cjdn = 0
    /\ cjdn' = jalali_to_jdn(cdate.year, cdate.month, cdate.day)
    /\ UNCHANGED <<cdate, cback, pdate, pjdn, cgreg, cjal, gdate, gjal, gback,
                   cgregv, cjalv, gjalv, gbackv, cweek, pweek, cylen, notCal>>

JdnNext == JdnCall

SpecJdn == JdnInit /\ [][JdnNext]_vars

(***************************************************************************)
(* Properties of the calendar functions, checked under SpecCal.            *)
(***************************************************************************)
\* the years of the window the claims name (1300 and later)
InWindow(d) == d # NoDate /\ d.year >= COMMON_JALALI_YEAR_START

\* C1: the ordinal round trip: for every valid Jalali date of the window,
\* jdn_to_jalali(jalali_to_jdn(y, m, d)) = (y, m, d).
C1_OrdinalRoundTrip ==
    (InWindow(cdate) /\ cback # NoDate) => cback = cdate

\* C2: consecutive calendar days of the window have ordinals that differ by
\* exactly 1.
C2_ConsecutiveOrdinals ==
    (InWindow(pdate) /\ InWindow(cdate)) => cjdn = pjdn + 1

\* the first day of every year examined
NowruzDates == {Date(y, 1, 1) : y \in CalYears}

\* C3: date order and ordinal order agree for any two valid dates of any
\* years (also years <= 0): D1 < D2 iff ordinal(D1) < ordinal(D2), and two
\* different dates never share an ordinal.  Checked between the date
\* examined and the first day of every year.
C3_OrderAgrees ==
    (cdate # NoDate /\ cback # NoDate) =>
        \A q \in NowruzDates :
            LET qjdn == jalali_to_jdn(q.year, q.month, q.day)
            IN  /\ DateLT(cdate, q) <=> cjdn < qjdn
                /\ cdate = q <=> cjdn = qjdn

RECURSIVE MonthDaysSum(_, _)
MonthDaysSum(y, m) ==
    IF m = 0 THEN 0 ELSE MonthDaysSum(y, m - 1) + days_in_month(y, m)

\* C4: leap consistency: for every year y, is_leap_year(y) iff
\* days_in_year(y) = 366 iff days_in_month(y, 12) = 30; otherwise the year
\* has 365 days and Esfand 29; and the twelve month lengths sum to
\* days_in_year(y).
C4_LeapConsistency ==
    cdate # NoDate =>
        LET y == cdate.year
        IN  /\ is_leap_year(y) <=> days_in_year(y) = 366
            /\ is_leap_year(y) <=> days_in_month(y, 12) = 30
            /\ ~is_leap_year(y) => (days_in_year(y) = 365 /\ days_in_month(y, 12) = 29)
            /\ MonthDaysSum(y, 12) = days_in_year(y)

\* a leap year and a common year, one of them not positive, were examined
C4_Witness ==
    /\ cdate = Date(0 - 3, 12, 30)
    /\ is_leap_year(cdate.year)
    /\ ~is_leap_year(0)
    /\ cback # NoDate

\* C5: the cross-calendar round trip: a valid Jalali date of the window
\* converted to Gregorian and back is itself, a Gregorian date of the
\* corresponding window converted to Jalali and back is itself, and the
\* same holds through the batch functions.
C5_CrossCalendarRoundTrip ==
    /\ (InWindow(cdate) /\ cjal # NoDate) => (cjal = cdate /\ cjalv = cdate)
    /\ (gdate # NoDate /\ gback # NoDate) => (gback = gdate /\ gbackv = gdate)

\* a date of the cached window went there and back with the tables built,
\* or a Gregorian date did with the tables not built
C5_Witness ==
    \/ /\ lookupReady /\ cdate = Date(COMMON_JALALI_YEAR_START, 12, 30)
       /\ cgreg = Date(1922, 3, 21) /\ cjal = cdate
    \/ /\ ~lookupReady /\ gdate = Date(1924, 2, 29) /\ gback = gdate

(***************************************************************************)
(* Properties of the offsets, checked under SpecOff.                       *)
(***************************************************************************)
MonthIndex(t) == t.year * 12 + t.month - 1
QuarterIndex(t) == t.year * 4 + ((t.month - 1) \div 3)

\* C8: for every valid timestamp and every n # 0, JalaliMonthEnd(n) + ts,
\* JalaliQuarterEnd(n) + ts and JalaliYearEnd(n) + ts return a valid date whose
\* day is days_in_month(result.year, result.month); the quarter result has its
\* month in {3, 6, 9, 12}; the year result is month 12, day 30 in a leap year
\* and 29 otherwise; and the result's period index (month, quarter or year) is
\* the input's plus n, across year boundaries in both directions.
C8_EndOffsetBoundary ==
    (op = "add" /\ off.kind \in {"JME", "JQE", "JYE"} /\ off.n # 0) =>
        /\ res # StampError
        /\ validate_jalali_date(res.year, res.month, res.day)
        /\ res.day = days_in_month(res.year, res.month)
        /\ off.kind = "JME" => MonthIndex(res) = MonthIndex(ts) + off.n
        /\ off.kind = "JQE" =>
            /\ res.month \in {3, 6, 9, 12}
            /\ QuarterIndex(res) = QuarterIndex(ts) + off.n
        /\ off.kind = "JYE" =>
            /\ res.month = 12
            /\ res.day = (IF is_leap_year(res.year) THEN 30 ELSE 29)
            /\ res.year = ts.year + off.n

\* JalaliQuarterEnd(-1) + 1301-02-31 13:45:30 steps back over the year
\* boundary to the last day of the leap year 1300
C8_Witness ==
    /\ op = "add" /\ off = Offset("JQE", -1, FALSE, 0)
    /\ DateOf(ts) = Date(COMMON_JALALI_YEAR_START + 1, 2, 31) /\ ts.hour = 13
    /\ DateOf(res) = Date(COMMON_JALALI_YEAR_START, 12, 30) /\ res.hour = 13

\* C9: for every valid timestamp and every n # 0, JalaliMonthBegin(n) + ts,
\* JalaliQuarterBegin(n) + ts and JalaliYearBegin(n) + ts return day 1; the
\* quarter result has its month in {1, 4, 7, 10}; the year result is month 1
\* of year ts.year + n; and the month result is exactly n months from ts's
\* month (year*12 + month - 1 grows by n), across year boundaries forwards
\* and backwards.
C9_BeginOffsetBoundary ==
    (op = "add" /\ off.kind \in {"JMS", "JQS", "JYS"} /\ off.n # 0) =>
        /\ res # StampError
        /\ res.day = 1
        /\ off.kind = "JMS" => MonthIndex(res) = MonthIndex(ts) + off.n
        /\ off.kind = "JQS" => res.month \in {1, 4, 7, 10}
        /\ off.kind = "JYS" => res.month = 1 /\ res.year = ts.year + off.n

\* JalaliMonthBegin(2) + 1300-11-30 13:45:30 steps over the year boundary to
\* 1301-01-01, and JalaliMonthBegin(-1) on a Farvardin date steps back to Esfand
C9_Witness ==
    /\ op = "add" /\ off.kind = "JMS" /\ ~off.normalize
    /\ \/ /\ off.n = 2
          /\ DateOf(ts) = Date(COMMON_JALALI_YEAR_START, 11, 30) /\ ts.hour = 13
          /\ DateOf(res) = Date(COMMON_JALALI_YEAR_START + 1, 1, 1) /\ res.hour = 13
       \/ /\ off.n = -1
          /\ DateOf(ts) = Date(COMMON_JALALI_YEAR_START, 1, 15)
          /\ DateOf(res) = Date(COMMON_JALALI_YEAR_START - 1, 12, 1)

\* the dates strictly between two timestamps' dates
DatesBetween(a, b) ==
    {d \in UNION {DatesOfYear(y) : y \in a.year .. b.year} :
        DateLT(DateOf(a), d) /\ DateLT(d, DateOf(b))}

\* the timestamp ts moved to date d
AtDate(t, d) ==
    Stamp(d.year, d.month, d.day, t.hour, t.minute, t.second,
          t.microsecond, t.nanosecond, t.tzinfo)

\* r is the nearest boundary of offset o after timestamp t
NearestBoundaryAfter(o, t, r) ==
    /\ r # StampError
    /\ IsOnOffset(o, r)
    /\ DateLT(DateOf(t), DateOf(r))
    /\ \A d \in DatesBetween(t, r) : ~IsOnOffset(o, AtDate(t, d))

\* C10: for every offset class and every n, rollforward(ts) returns ts
\* unchanged when is_on_offset(ts); otherwise it returns the nearest boundary
\* after ts: an on-offset result whose date is later than ts's date, with no
\* on-offset date strictly between the two.
C10_Rollforward ==
    op = "rollforward" =>
        IF IsOnOffset(off, ts) THEN res = ts
        ELSE NearestBoundaryAfter(off, ts, res)

\* r is the nearest boundary of offset o before timestamp t
NearestBoundaryBefore(o, t, r) ==
    /\ r # StampError
    /\ IsOnOffset(o, r)
    /\ DateLT(DateOf(r), DateOf(t))
    /\ \A d \in DatesBetween(r, t) : ~IsOnOffset(o, AtDate(t, d))

\* C11: for every offset class and every n, rollback(ts) returns ts unchanged
\* when is_on_offset(ts); otherwise it returns the nearest boundary before
\* ts: an on-offset result whose date is earlier than ts's date, with no
\* on-offset date strictly between the two.
C11_Rollback ==
    op = "rollback" =>
        IF IsOnOffset(off, ts) THEN res = ts
        ELSE NearestBoundaryBefore(off, ts, res)

\* C12: for every offset class (JalaliWeek with every weekday 0..6) and every
\* valid timestamp x of the years examined, rollforward(rollforward(x)) =
\* rollforward(x) and rollback(rollback(x)) = rollback(x): the result of one
\* roll is on-offset.
C12_RollIdempotent ==
    (op \in {"rollforward_twice", "rollback_twice"} /\ InWindow(DateOf(ts))) =>
        /\ res2 = res
        /\ IsOnOffset(off, res)

\* C13: for the Month, Quarter and Year Begin and End offsets, every valid
\* timestamp ts and every n # 0, applying the offset with n and then with -n
\* returns to the period that contained ts (same year and month, same year
\* and quarter, or same year), on that period's boundary day: day 1 of the
\* period for Begin, its last valid day for End.
C13_NegationLaw ==
    (op = "add_neg" /\ off.kind \in PeriodKinds /\ off.n # 0) =>
        /\ res2 # StampError
        /\ off.kind \in {"JMS", "JME"} => MonthIndex(res2) = MonthIndex(ts)
        /\ off.kind \in {"JQS", "JQE"} => QuarterIndex(res2) = QuarterIndex(ts)
        /\ off.kind \in {"JYS", "JYE"} => res2.year = ts.year
        /\ off.kind \in {"JMS", "JQS", "JYS"} => res2.day = 1
        /\ off.kind \in {"JME", "JQE", "JYE"} =>
            res2.day = days_in_month(res2.year, res2.month)
        /\ off.kind = "JQS" => res2.month = ((ts.month - 1) \div 3) * 3 + 1
        /\ off.kind = "JQE" => res2.month = (((ts.month - 1) \div 3) + 1) * 3
        /\ off.kind = "JYS" => res2.month = 1
        /\ off.kind = "JYE" => res2.month = 12

\* JalaliMonthEnd(1) takes 1300-12-15 over the year boundary to 1301-01-31,
\* and JalaliMonthEnd(-1) brings it back to 1300-12-30, the leap Esfand's end
C13_Witness ==
    /\ op = "add_neg" /\ off.kind = "JME" /\ off.n = 1
    /\ DateOf(ts) = Date(COMMON_JALALI_YEAR_START, 12, 15)
    /\ DateOf(res) = Date(COMMON_JALALI_YEAR_START + 1, 1, 31)
    /\ DateOf(res2) = Date(COMMON_JALALI_YEAR_START, 12, 30)

\* the move the Week offset is to make from weekday cur to weekday w
WeekMove(n, w, cur) ==
    IF cur = w THEN 7 * n
    ELSE IF n > 0 THEN ((w - cur) % 7) + 7 * (n - 1)
    ELSE ((w - cur) % 7) - 7 + 7 * (n + 1)

\* C14: for every valid timestamp ts of the years examined, every weekday w
\* in 0..6 and every n # 0, r = JalaliWeek(n, weekday=w) + ts has
\* r.dayofweek = w, and the move from ts to r is 7*n days when ts.dayofweek = w,
\* ((w - ts.dayofweek) mod 7) + 7*(n-1) days for n > 0 and
\* ((w - ts.dayofweek) mod 7) - 7 + 7*(n+1) days for n < 0.
C14_WeekLandsOnWeekday ==
    (op = "add" /\ off.kind = "JW" /\ off.n # 0 /\ InWindow(DateOf(ts))) =>
        /\ res # StampError
        /\ dayofweek(res) = off.weekday
        /\ GregorianDays(res) - GregorianDays(ts)
               = WeekMove(off.n, off.weekday, dayofweek(ts))

AtMidnight(t) ==
    /\ t.hour = 0 /\ t.minute = 0 /\ t.second = 0
    /\ t.microsecond = 0 /\ t.nanosecond = 0

\* C19: for every offset class constructed with normalize=True and every
\* valid timestamp ts, on-offset or not, the timestamp returned by +, by
\* rollforward and by rollback has hour, minute, second, microsecond and
\* nanosecond all 0.
C19_NormalizeFlag ==
    (off.normalize /\ op \in {"add", "rollforward", "rollback"}) =>
        res # StampError /\ AtMidnight(res)

(***************************************************************************)
(* Properties of frequency parsing, checked under SpecFreq.                *)
(***************************************************************************)
\* u is an optional "-", then a digits, then a non-empty run of letters,
\* with `sign` characters of sign and `digits` digits
HasShape(u, sign, digits) ==
    /\ sign + digits < Len(u)
    /\ sign = 1 => u[1] = "-"
    /\ \A i \in (sign + 1)..(sign + digits) : u[i] \in DIGITS
    /\ \A i \in (sign + digits + 1)..Len(u) : u[i] \in ASCII_UPPERCASE

RECURSIVE Pow10(_)
Pow10(k) == IF k = 0 THEN 1 ELSE 10 * Pow10(k - 1)

\* the decimal value of the digits u[from..to], by place value
RECURSIVE PlaceValue(_, _, _)
PlaceValue(u, from, to) ==
    IF from > to THEN 0
    ELSE DigitValue(u[from]) * Pow10(to - from) + PlaceValue(u, from + 1, to)

\* what the claim says the parse of a string of this shape is
ExpectedParse(u, sign, digits) ==
    LET code == SubSeq(u, sign + digits + 1, Len(u))
        mult == IF digits = 0 THEN 1 ELSE PlaceValue(u, sign + 1, sign + digits)
        n == IF sign = 1 THEN 0 - mult ELSE mult
    IN  IF \E e \in JALALI_OFFSET_ALIASES : e.alias = code
        THEN \E e \in JALALI_OFFSET_ALIASES :
                /\ e.alias = code
                /\ parsed.status = "ok"
                /\ parsed.off.kind = e.class
                /\ parsed.off.n = n
        ELSE parsed = UnknownAlias

\* C15: parse_jalali_frequency accepts exactly the strings that, trimmed and
\* upper-cased, are an optional "-", an optional run of digits and a letter
\* code; a registered code gives the registered class with n the multiplier
\* (1 when absent), negated when the sign is present; an unregistered code
\* gives the unknown-alias error; any other shape gives the cannot-parse error.
C15_FrequencyParsing ==
    parsed # NotParsed =>
        LET u == upper(strip(freq_str))
        IN  IF \E sign \in 0..1, digits \in 0..Len(u) : HasShape(u, sign, digits)
            THEN \A sign \in 0..1, digits \in 0..Len(u) :
                    HasShape(u, sign, digits) => ExpectedParse(u, sign, digits)
            ELSE parsed = CannotParse

\* "-2JME" gives JalaliMonthEnd(n=-2); " jw " gives JalaliWeek(n=1); "20JW"
\* gives JalaliWeek(n=20)
C15_Witness ==
    \/ freq_str = <<"-", "2", "J", "M", "E">> /\ parsed = Parsed(Offset("JME", -2, FALSE, 0))
    \/ freq_str = <<" ", "j", "W", " ">> /\ parsed = Parsed(Offset("JW", 1, FALSE, 0))
    \/ freq_str = <<"2", "0", "J", "W">> /\ parsed = Parsed(Offset("JW", 20, FALSE, 0))

(***************************************************************************)
(* Properties of the timestamp value, checked under SpecStamp.             *)
(***************************************************************************)
\* every component of t is inside its range
InRange(t) ==
    /\ 1 <= t.month /\ t.month <= 12
    /\ 1 <= t.day /\ t.day <= days_in_month(t.year, t.month)
    /\ 0 <= t.hour /\ t.hour <= 23
    /\ 0 <= t.minute /\ t.minute <= 59
    /\ 0 <= t.second /\ t.second <= 59
    /\ 0 <= t.microsecond /\ t.microsecond <= 999999
    /\ 0 <= t.nanosecond /\ t.nanosecond <= 999

\* the components replace(**kw) asks for
Wanted ==
    Stamp(Given(kw, "year", made.year), Given(kw, "month", made.month),
          Given(kw, "day", made.day), Given(kw, "hour", made.hour),
          Given(kw, "minute", made.minute), Given(kw, "second", made.second),
          Given(kw, "microsecond", made.microsecond),
          Given(kw, "nanosecond", made.nanosecond), made.tzinfo)

\* C16: every JalaliTimestamp that exists, from the constructor, from
\* replace or normalize, or from an offset's +, rollforward or rollback, has
\* month in 1..12, day in 1..days_in_month(year, month), hour 0..23, minute
\* and second 0..59, microsecond 0..999999 and nanosecond 0..999; and a
\* component outside its range raises an error: nothing is clamped to a
\* nearby valid value.
C16_ValidityInvariant ==
    /\ made # NoStamp =>
        IF InRange(args) THEN made = args ELSE made = StampError
    /\ (changed # NoStamp /\ changed # StampError) => InRange(changed)
    /\ sop = "replace" =>
        IF InRange(Wanted) THEN changed = Wanted ELSE changed = StampError

\* 1300-12-30 exists (1300 is a leap year); replace(year=1301) asks for day 30
\* of Esfand in a common year and raises
C16_Witness ==
    /\ DateOf(made) = Date(COMMON_JALALI_YEAR_START, 12, 30)
    /\ sop = "replace" /\ kw = [year |-> COMMON_JALALI_YEAR_START + 1]
    /\ changed = StampError

(***************************************************************************)
(* Properties of comparison and of JalaliNaT, checked under SpecCmp.       *)
(***************************************************************************)
Count(b) == IF b = "True" THEN 1 ELSE 0

\* both operands are timestamps, both naive or both aware
Comparable ==
    /\ lhs # JalaliNaT /\ rhs # JalaliNaT
    /\ (lhs.tzinfo = "none") <=> (rhs.tzinfo = "none")

\* C17: for two timestamps that can be compared (both naive, or both aware,
\* in the same or different zones), exactly one of a < b, a == b, a > b
\* holds, a <= b is (a < b or a == b), and a >= b is (a > b or a == b):
\* field-wise equality and ordering by the Gregorian instant never disagree.
C17_TotalOrder ==
    (cmp # <<>> /\ Comparable) =>
        /\ Count(cmp["lt"]) + Count(cmp["eq"]) + Count(cmp["gt"]) = 1
        /\ (cmp["le"] = "True") <=> (cmp["lt"] = "True" \/ cmp["eq"] = "True")
        /\ (cmp["ge"] = "True") <=> (cmp["gt"] = "True" \/ cmp["eq"] = "True")

\* C18: JalaliNaT == JalaliNaT is true; every ordering comparison with
\* JalaliNaT on either side, against a timestamp or JalaliNaT itself, is
\* false; JalaliNaT == ts is false; and JalaliNaT + x, x + JalaliNaT,
\* JalaliNaT - x and x - JalaliNaT all return JalaliNaT.
C18_MissingValue ==
    /\ (cmp # <<>> /\ (lhs = JalaliNaT \/ rhs = JalaliNaT)) =>
        /\ \A cop \in {"lt", "le", "gt", "ge"} : cmp[cop] = "False"
        /\ cmp["eq"] = Bool(lhs = JalaliNaT /\ rhs = JalaliNaT)
    /\ (arith # <<>> /\ (lhs = JalaliNaT \/ rhs = JalaliNaT)) =>
        arith["add"] = "JalaliNaT" /\ arith["sub"] = "JalaliNaT"

(***************************************************************************)
(* Property of the ordinal converter on arbitrary input, under SpecJdn.    *)
(***************************************************************************)
\* C20: jalali_to_jdn(year, month, day) fails with an error whenever month is
\* outside 1..12 or day is outside 1..days_in_month(year, month); it never
\* returns an ordinal for a date that does not exist.
C20_JdnRejectsInvalid ==
    (cjdn # 0 /\ ~validate_jalali_date(cdate.year, cdate.month, cdate.day)) =>
        cjdn = JdnError

(***************************************************************************)
(* C22: for every valid Jalali date, week_of_year is between 1 and 53, and *)
(* from one day to the next within a year it does not decrease.            *)
(***************************************************************************)
C22_WeekNumberRange ==
    /\ InWindow(cdate) /\ cjdn # 0 => 1 <= cweek /\ cweek <= 53
    /\ InWindow(pdate) /\ pdate.year = cdate.year => pweek <= cweek

(***************************************************************************)
(* C25: for every year y, jalali_to_jdn(y+1, 1, 1) - jalali_to_jdn(y, 1, 1) *)
(* is days_in_year(y): the ordinal converter gives 366 days to exactly the *)
(* years that is_leap_year calls leap.                                     *)
(***************************************************************************)
C25_YearLengthAgrees ==
    InWindow(cdate) /\ cjdn # 0 => cylen = days_in_year(cdate.year)

(***************************************************************************)
(* core/timestamp.py: strftime and strptime.  A string is a sequence of    *)
(* characters; a format is a sequence whose elements are the two-character *)
(* codes ("%Y", "%m", ...) and literal characters.                         *)
(***************************************************************************)
DigitChar(n) == CHOOSE c \in DIGITS : DigitValue(c) = n

\* f"{n:0{width}d}" for n >= 0: the decimal digits, zero-padded on the left
RECURSIVE format_d(_, _)
format_d(n, width) ==
    IF n < 10 /\ width <= 1 THEN <<DigitChar(n)>>
    ELSE Append(format_d(n \div 10, width - 1), DigitChar(n % 10))

\* the replacements dictionary of strftime
strftime_code(t, code) ==
    CASE code = "%Y" -> format_d(t.year, 4)
      [] code = "%y" -> format_d(t.year % 100, 2)
      [] code = "%m" -> format_d(t.month, 2)
      [] code = "%d" -> format_d(t.day, 2)
      [] code = "%H" -> format_d(t.hour, 2)
      [] code = "%M" -> format_d(t.minute, 2)
      [] code = "%S" -> format_d(t.second, 2)
      [] code = "%f" -> format_d(t.microsecond, 6)
      [] code = "%j" -> format_d(day_of_year(t.year, t.month, t.day), 3)
      [] code = "%W" -> format_d(week_of_year(t.year, t.month, t.day), 2)
      [] code = "%w" -> format_d(dayofweek(t), 1)
      [] OTHER -> <<code>>

\* JalaliTimestamp.strftime(fmt): every code replaced by its value
RECURSIVE strftime(_, _)
strftime(t, fmt) ==
    IF fmt = <<>> THEN <<>>
    ELSE strftime_code(t, Head(fmt)) \o strftime(t, Tail(fmt))

\* the replacements list of strptime: the group a code becomes, (?P<name>\d{lo,hi})
StrptimeCodes == {"%Y", "%y", "%m", "%d", "%H", "%M", "%S"}

StrptimeGroup(code) ==
    CASE code = "%Y" -> [name |-> "year", lo |-> 4, hi |-> 4]
      [] code = "%y" -> [name |-> "year2", lo |-> 2, hi |-> 2]
      [] code = "%m" -> [name |-> "month", lo |-> 1, hi |-> 2]
      [] code = "%d" -> [name |-> "day", lo |-> 1, hi |-> 2]
      [] code = "%H" -> [name |-> "hour", lo |-> 1, hi |-> 2]
      [] code = "%M" -> [name |-> "minute", lo |-> 1, hi |-> 2]
      [] code = "%S" -> [name |-> "second", lo |-> 1, hi |-> 2]

NoMatch == [matched |-> FALSE, groups |-> <<>>]

\* re.match(pattern, date_string): the pattern is matched from the start of
\* the string and nothing anchors its end, so the match is complete when the
\* pattern is used up, whatever is left of the string.  A group takes as many
\* digits as it may and gives one back when the rest does not match.
RECURSIVE regex_match(_, _, _)
regex_match(pattern, s, groups) ==
    IF pattern = <<>> THEN [matched |-> TRUE, groups |-> groups]
    ELSE LET tok == Head(pattern)
         IN  IF tok \notin StrptimeCodes
             THEN IF s # <<>> /\ Head(s) = tok
                  THEN regex_match(Tail(pattern), Tail(s), groups)
                  ELSE NoMatch
             ELSE LET g == StrptimeGroup(tok)
                      take(k) ==
                          IF k <= Len(s) /\ \A i \in 1..k : s[i] \in DIGITS
                          THEN regex_match(
                                   Tail(pattern), SubSeq(s, k + 1, Len(s)),
                                   [n \in DOMAIN groups \cup {g.name} |->
                                       IF n = g.name THEN SubSeq(s, 1, k)
                                       ELSE groups[n]])
                          ELSE NoMatch
                      greedy == take(g.hi)
                  IN  IF greedy.matched \/ g.lo = g.hi THEN greedy
                      ELSE take(g.lo)

\* strptime raised ValueError("Cannot parse ...")
ParseError == Stamp(0, 0, -2, 0, 0, 0, 0, 0, "none")

\* JalaliTimestamp.strptime(date_string, fmt)
strptime(string, fmt) ==
    LET match == regex_match(fmt, string, <<>>)
        data == match.groups
        year1 == IF "year" \in DOMAIN data THEN parse_int(data["year"])
                 ELSE IF "year2" \in DOMAIN data THEN parse_int(data["year2"])
                 ELSE 0
        year == IF "year2" \in DOMAIN data /\ year1 < 100 THEN 1300 + year1
                ELSE year1
        int(name, default) ==
            IF name \in DOMAIN data THEN parse_int(data[name]) ELSE default
    IN  IF ~match.matched THEN ParseError
        ELSE JalaliTimestamp(year, int("month", 1), int("day", 1),
                             int("hour", 0), int("minute", 0),
                             int("second", 0), 0, 0, "none")

(***************************************************************************)
(* SpecStr: a timestamp is formatted with one format, the string is given  *)
(* to strptime as it is, cut short or with characters added, with the same *)
(* or another format.                                                      *)
(***************************************************************************)
DateFormat == <<"%Y", "-", "%m", "-", "%d">>
DateTimeFormat ==
    <<"%Y", "-", "%m", "-", "%d", " ", "%H", ":", "%M", ":", "%S">>
SlashFormat == <<"%Y", "/", "%m", "/", "%d">>
ShortYearFormat == <<"%y", "-", "%m", "-", "%d">>

StrFormats == {DateFormat, DateTimeFormat, SlashFormat, ShortYearFormat}

\* what is added after a formatted string
Suffixes == {<<" ">>, <<"7">>, <<"x">>, <<" ", "1", "0", ":", "3", "0">>}

\* a formatted string, the string without its last or first character, and
\* the string followed by a suffix or preceded by a space
Variants(s) ==
    {s, SubSeq(s, 1, Len(s) - 1), Tail(s), <<" ">> \o s}
    \cup {s \o x : x \in Suffixes}

StrInit ==
    /\ sts \in Stamps
    /\ sfmt \in StrFormats
    /\ \E written \in StrFormats :
           date_string \in Variants(strftime(sts, written))
    /\ sresult = NoStamp
    /\ CoreIdle /\ BatchIdle /\ RangeIdle /\ GroupIdle
    /\ RegIdle /\ NameIdle

StrParse ==
    /\ sresult = NoStamp
    /\ sresult' = strptime(date_string, sfmt)
    /\ UNCHANGED <<sts, sfmt, date_string>>
    /\ UNCHANGED <<coreVars, batchVars, rangeVars, groupVars, regVars, nameVars>>

StrNext == StrParse

SpecStr == StrInit /\ [][StrNext]_vars

\* the whole of s matches the format: each literal is the next character and
\* each code is a run of digits of a length its group allows
RECURSIVE MatchesWhole(_, _)
MatchesWhole(fmt, s) ==
    IF fmt = <<>> THEN s = <<>>
    ELSE IF Head(fmt) \notin StrptimeCodes
         THEN s # <<>> /\ Head(s) = Head(fmt) /\ MatchesWhole(Tail(fmt), Tail(s))
         ELSE \E k \in StrptimeGroup(Head(fmt)).lo .. StrptimeGroup(Head(fmt)).hi :
                  /\ k <= Len(s)
                  /\ \A i \in 1..k : s[i] \in DIGITS
                  /\ MatchesWhole(Tail(fmt), SubSeq(s, k + 1, Len(s)))

Raised(r) == r \in {ParseError, StampError}

(***************************************************************************)
(* C21: for every midnight timestamp ts with a four-digit year,            *)
(* strptime(ts.strftime("%Y-%m-%d"), "%Y-%m-%d") has the year, month and   *)
(* day of ts; and strptime(s, fmt) raises for every string s that does not *)
(* match the whole format, a string that matches it only as a prefix and   *)
(* carries trailing characters included.                                   *)
(***************************************************************************)
C21_ParseInvertsFormat ==
    sresult # NoStamp =>
        /\ (/\ sfmt = DateFormat
            /\ AtMidnight(sts)
            /\ date_string = strftime(sts, DateFormat))
           => DateOf(sresult) = DateOf(sts)
        /\ ~MatchesWhole(sfmt, date_string) => Raised(sresult)

(***************************************************************************)
(* api/conversion.py: to_jalali_datetime on a sequence.                    *)
(***************************************************************************)
SlashDateTimeFormat ==
    <<"%Y", "/", "%m", "/", "%d", " ", "%H", ":", "%M", ":", "%S">>
CompactFormat == <<"%Y", "%m", "%d">>

\* the formats _parse_string_scalar tries when format is None, in its order
CommonFormats ==
    <<DateTimeFormat, DateFormat, SlashDateTimeFormat, SlashFormat,
      CompactFormat>>

\* pd.NaT, and a raised TypeError
PdNaT == Stamp(0, 0, 0, 0, 0, 0, 0, 0, "pd.NaT")
TypeErrorRaised == Stamp(0, 0, -3, 0, 0, 0, 0, 0, "none")

\* the loop over the common formats: the first that does not raise
RECURSIVE try_formats(_, _)
try_formats(value, fmts) ==
    IF fmts = <<>> THEN ParseError
    ELSE LET r == strptime(value, Head(fmts))
         IN  IF r \in {ParseError, StampError} THEN try_formats(value, Tail(fmts))
             ELSE r

\* _parse_string_scalar(value, format, errors)
parse_string_scalar(value, format, errors) ==
    LET r == IF format # <<>> THEN strptime(value, format)
             ELSE try_formats(value, CommonFormats)
    IN  IF r \notin {ParseError, StampError} THEN r
        ELSE IF errors = "raise" THEN r
        ELSE IF errors = "coerce" THEN PdNaT
        ELSE TypeErrorRaised

\* JalaliTimestamp.from_gregorian(ts) of a pandas Timestamp (tz not given)
from_gregorian(g) ==
    LET jalali == jd_fromgregorian(g.year, g.month, g.day)
    IN  JalaliTimestamp(jalali.year, jalali.month, jalali.day, g.hour,
                        g.minute, g.second, g.microsecond, g.nanosecond,
                        g.tzinfo)

\* an element of the input: None, a JalaliTimestamp, a string, a pandas
\* Timestamp, or an object pd.Timestamp() does not accept.  stamp is the
\* element itself for the two timestamp kinds, and for a string the timestamp
\* it was written from (NoStamp when there is none).
Item(kind, stamp, text) == [kind |-> kind, stamp |-> stamp, text |-> text]

\* the body of the try block of _convert_sequence for one element
convert_item(item, format) ==
    CASE item.kind = "None" -> PdNaT
      [] item.kind = "JalaliTimestamp" -> item.stamp
      [] item.kind = "str" -> parse_string_scalar(item.text, format, "raise")
      [] item.kind = "pd.Timestamp" -> from_gregorian(item.stamp)
      [] OTHER -> TypeErrorRaised

\* JalaliDatetimeArray._from_sequence on the list results
from_sequence(scalars) ==
    [i \in DOMAIN scalars |->
        IF scalars[i].tzinfo = "pd.NaT" THEN PdNaT ELSE scalars[i]]

Returned(value) == [status |-> "returned", error |-> "", value |-> value]
RaisedError(error) == [status |-> "raised", error |-> error, value |-> <<>>]

(***************************************************************************)
(* SpecBatch: to_jalali_datetime(items, format, errors) on a list of up to *)
(* MaxItems elements, one pass of the loop at a time.                      *)
(***************************************************************************)
MaxItems == 3

BatchDay == JalaliTimestamp(1300, 12, 30, 0, 0, 0, 0, 0, "none")
BatchNoon == JalaliTimestamp(1301, 1, 15, 13, 45, 30, 0, 0, "none")

Elements ==
    {Item("None", NoStamp, <<>>),
     Item("JalaliTimestamp", BatchDay, <<>>),
     Item("str", BatchDay, strftime(BatchDay, DateFormat)),
     Item("str", BatchNoon, strftime(BatchNoon, DateTimeFormat)),
     Item("str", NoStamp, <<"x">>),
     Item("str", NoStamp, <<"1", "3", "0", "1", "-", "1", "2", "-", "3", "0">>),
     Item("str", NoStamp, strftime(BatchDay, DateFormat) \o <<"x">>),
     Item("pd.Timestamp", Stamp(1922, 3, 21, 0, 0, 0, 0, 0, "none"), <<>>),
     Item("object", NoStamp, <<>>)}

RECURSIVE Lists(_)
Lists(n) ==
    IF n = 0 THEN {<<>>}
    ELSE Lists(n - 1)
         \cup {Append(l, e) : l \in {x \in Lists(n - 1) : Len(x) = n - 1},
                              e \in Elements}

BatchInit ==
    /\ items \in Lists(MaxItems)
    /\ bformat \in {<<>>, DateFormat}
    /\ berrors \in {"raise", "coerce", "ignore"}
    /\ bpos = 1
    /\ bresults = <<>>
    /\ bout = NotReturned
    /\ CoreIdle /\ StrIdle /\ RangeIdle /\ GroupIdle
    /\ RegIdle /\ NameIdle

\* one pass of `for item in items`
BatchItem ==
    /\ bout = NotReturned
    /\ bpos <= Len(items)
    /\ LET r == convert_item(items[bpos], bformat)
       IN  IF r \notin {ParseError, StampError, TypeErrorRaised}
           THEN /\ bresults' = Append(bresults, r)
                /\ bpos' = bpos + 1
                /\ bout' = bout
           ELSE IF berrors = "raise"
           THEN /\ bout' = RaisedError(IF r = TypeErrorRaised THEN "TypeError"
                                       ELSE "ValueError")
                /\ UNCHANGED <<bresults, bpos>>
           ELSE IF berrors = "coerce"
           THEN /\ bresults' = Append(bresults, PdNaT)
                /\ bpos' = bpos + 1
                /\ bout' = bout
           ELSE /\ bout' = RaisedError("ValueError")
                /\ UNCHANGED <<bresults, bpos>>
    /\ UNCHANGED <<items, bformat, berrors>>
    /\ UNCHANGED <<coreVars, strVars, rangeVars, groupVars, regVars, nameVars>>

\* the loop is over: the index is built from results and returned
BatchReturn ==
    /\ bout = NotReturned
    /\ bpos > Len(items)
    /\ bout' = Returned(from_sequence(bresults))
    /\ UNCHANGED <<items, bformat, berrors, bpos, bresults>>
    /\ UNCHANGED <<coreVars, strVars, rangeVars, groupVars, regVars, nameVars>>

BatchNext == BatchItem \/ BatchReturn

SpecBatch == BatchInit /\ [][BatchNext]_vars

\* the formats an element's string is read with
FormatsTried == IF bformat # <<>> THEN {bformat}
                ELSE {CommonFormats[i] : i \in DOMAIN CommonFormats}

\* an element that cannot be converted: a string that is not a date written
\* in one of the formats, or an object that is no timestamp
Unparsable(item) ==
    \/ item.kind = "object"
    \/ /\ item.kind = "str"
       /\ \/ item.stamp = NoStamp
          \/ \A f \in FormatsTried : ~MatchesWhole(f, item.text)

Missing(item) == item.kind = "None"

\* what a convertible element becomes
Converted(item, r) ==
    /\ r.tzinfo # "pd.NaT"
    /\ r \notin {ParseError, StampError, TypeErrorRaised}
    /\ item.kind = "JalaliTimestamp" => r = item.stamp
    /\ item.kind = "str" => DateOf(r) = DateOf(item.stamp)
    /\ item.kind = "pd.Timestamp" =>
           jd_togregorian(r.year, r.month, r.day) = DateOf(item.stamp)

(***************************************************************************)
(* C23: to_jalali_datetime(seq, errors): with 'coerce' the result has the  *)
(* length of the input, NaT at exactly the positions of the unparsable and *)
(* the missing elements and the converted timestamp elsewhere; with        *)
(* 'raise' an unparsable element raises and nothing is returned; with      *)
(* 'ignore' the input is passed through unchanged when an element is       *)
(* unparsable.                                                             *)
(***************************************************************************)
C23_ErrorPolicy ==
    bout # NotReturned =>
      LET bad == \E i \in DOMAIN items : Unparsable(items[i])
          converted ==
              /\ bout.status = "returned"
              /\ Len(bout.value) = Len(items)
              /\ \A i \in DOMAIN items :
                     IF Unparsable(items[i]) \/ Missing(items[i])
                     THEN bout.value[i] = PdNaT
                     ELSE Converted(items[i], bout.value[i])
      IN  /\ berrors = "coerce" => converted
          /\ berrors = "raise" =>
                 IF bad THEN bout.status = "raised" ELSE converted
          /\ berrors = "ignore" =>
                 IF bad THEN bout.status = "returned" /\ bout.value = items
                 ELSE converted

(***************************************************************************)
(* api/date_range.py: _generate_range with start and end (no periods) and  *)
(* a Jalali offset.                                                        *)
(***************************************************************************)
\* a loop that goes on whatever the next date is
NeverStalls(next_date, current) == FALSE

\* `if next_date <= current: break`
Stalls(next_date, current) == Compare("le", next_date, current) = "True"

\* the inclusive parameter applied to the dates generated
apply_inclusive(dates, inclusive) ==
    IF dates = <<>> THEN dates
    ELSE CASE inclusive = "neither" ->
                  (IF Len(dates) > 2 THEN SubSeq(dates, 2, Len(dates) - 1)
                   ELSE <<>>)
           [] inclusive = "left" ->
                  (IF Len(dates) > 1 THEN SubSeq(dates, 1, Len(dates) - 1)
                   ELSE dates)
           [] inclusive = "right" ->
                  (IF Len(dates) > 1 THEN Tail(dates) ELSE dates)
           [] OTHER -> dates

(***************************************************************************)
(* SpecRange: jalali_date_range(start, end, freq=offset), one pass of the  *)
(* while loop at a time.  The list dates is capped at MaxDates elements;   *)
(* the cap is never reached by the loop as written.                        *)
(***************************************************************************)
MaxDates == 20

RangeDates ==
    {Date(1300, 11, 15), Date(1300, 12, 30), Date(1301, 1, 1),
     Date(1301, 2, 10)}

\* midnight; an afternoon with every field set; the same in a timezone
RangeClocks ==
    {[hour |-> 0, minute |-> 0, second |-> 0, microsecond |-> 0,
      nanosecond |-> 0, tzinfo |-> "none"],
     [hour |-> 13, minute |-> 45, second |-> 30, microsecond |-> 123456,
      nanosecond |-> 789, tzinfo |-> "none"],
     [hour |-> 13, minute |-> 45, second |-> 30, microsecond |-> 123456,
      nanosecond |-> 789, tzinfo |-> "UTC"]}

RangeStamps ==
    {JalaliTimestamp(d.year, d.month, d.day, c.hour, c.minute, c.second,
                     c.microsecond, c.nanosecond, c.tzinfo) :
        d \in RangeDates, c \in RangeClocks}

\* nothing has been called
RangeInit ==
    /\ rstart = NoStamp /\ rend = NoStamp /\ roff = Offset("JMS", 1, FALSE, 0)
    /\ rpc = "start"
    /\ rcurrent = NoStamp /\ rdates = <<>> /\ rreturned = <<>>
    /\ CoreIdle /\ StrIdle /\ BatchIdle /\ GroupIdle
    /\ RegIdle /\ NameIdle

\* the call, with its arguments: current = offset.rollforward(start)
RangeStart ==
    /\ rpc = "start"
    /\ rstart' \in RangeStamps
    /\ rend' \in RangeStamps
    /\ roff' \in Offsets
    /\ rcurrent' = Rollforward(roff', rstart')
    /\ rpc' = "loop"
    /\ UNCHANGED <<rdates, rreturned>>
    /\ UNCHANGED <<coreVars, strVars, batchVars, groupVars, regVars, nameVars>>

\* the test of the while loop and one pass of its body
RangeIterate ==
    /\ rpc = "loop"
    /\ Len(rdates) < MaxDates
    /\ LET test == Compare("le", rcurrent, rend)
           next_date == Add(roff, rcurrent)
       IN  IF test = "TypeError"
           THEN rpc' = "raised" /\ UNCHANGED <<rcurrent, rdates>>
           ELSE IF test = "False"
           THEN rpc' = "inclusive" /\ UNCHANGED <<rcurrent, rdates>>
           ELSE /\ rdates' = Append(rdates, rcurrent)
                /\ IF Stalls(next_date, rcurrent)
                   THEN rpc' = "inclusive" /\ rcurrent' = rcurrent
                   ELSE rpc' = "loop" /\ rcurrent' = next_date
    /\ UNCHANGED <<rstart, rend, roff, rreturned>>
    /\ UNCHANGED <<coreVars, strVars, batchVars, groupVars, regVars, nameVars>>

\* the inclusive parameter is applied and the list returned
RangeReturn ==
    /\ rpc = "inclusive"
    /\ \E inclusive \in {"both", "neither", "left", "right"} :
           rreturned' = apply_inclusive(rdates, inclusive)
    /\ rpc' = "done"
    /\ UNCHANGED <<rstart, rend, roff, rcurrent, rdates>>
    /\ UNCHANGED <<coreVars, strVars, batchVars, groupVars, regVars, nameVars>>

RangeNext == RangeStart \/ RangeIterate \/ RangeReturn

SpecRange == RangeInit /\ [][RangeNext]_vars

\* The call runs on for as long as it has a step to take: weak fairness of
\* each of the three steps.  For RangeStart and RangeIterate the condition
\* WF_vars(A) is written out as []<>~(ENABLED <<A>>_vars) \/ []<><<A>>_vars,
\* with the state predicate that is the step's guard in place of ENABLED.
StartEnabled == rpc = "start"
IterateEnabled == rpc = "loop" /\ Len(rdates) < MaxDates

SpecRangeLive ==
    /\ SpecRange
    /\ []<>(~StartEnabled) \/ []<><<RangeStart>>_vars
    /\ []<>(~IterateEnabled) \/ []<><<RangeIterate>>_vars
    /\ WF_vars(RangeReturn)

StrictlyIncreasing(dates) ==
    \A i \in 1 .. (Len(dates) - 1) :
        Compare("lt", dates[i], dates[i + 1]) = "True"

NotAfter(a, b) == Compare("le", a, b) = "True"

(***************************************************************************)
(* C26: for every start <= end and every Jalali offset, each timestamp t   *)
(* returned by jalali_date_range(start, end, freq) has start <= t <= end   *)
(* and is on-offset.                                                       *)
(***************************************************************************)
C26_RangeWithinBounds ==
    (rpc = "done" /\ NotAfter(rstart, rend)) =>
        \A i \in DOMAIN rreturned :
            /\ NotAfter(rstart, rreturned[i])
            /\ NotAfter(rreturned[i], rend)
            /\ IsOnOffset(roff, rreturned[i])

(***************************************************************************)
(* C27: for every offset class with normalize=False and every timestamp    *)
(* ts, rollforward(ts) and rollback(ts) have the hour, minute, second,     *)
(* microsecond, nanosecond and tzinfo of ts; only the date may differ.     *)
(* Checked under SpecOff.                                                  *)
(***************************************************************************)
SameClock(a, b) ==
    /\ a.hour = b.hour /\ a.minute = b.minute /\ a.second = b.second
    /\ a.microsecond = b.microsecond /\ a.nanosecond = b.nanosecond
    /\ a.tzinfo = b.tzinfo

C27_RollKeepsClock ==
    (op \in {"rollforward", "rollback"} /\ ~off.normalize) => SameClock(res, ts)

(***************************************************************************)
(* api/grouper.py: the group labels of JalaliResampler._compute_groups and *)
(* JalaliGrouper._compute_jalali_groups.                                   *)
(***************************************************************************)
\* the label of one element of the index: the element converted to Jalali,
\* rolled forward to the period boundary and converted back
group_label(o, g) == to_gregorian(Rollforward(o, from_gregorian(g)))

(***************************************************************************)
(* SpecGroup: an index of two pandas Timestamps is grouped by JME, JQE or  *)
(* JYE.                                                                    *)
(***************************************************************************)
\* the first two days, the middle and the last two days of every month
GroupDates ==
    {d \in UNION {DatesOfYear(y) : y \in OffYears} :
        \/ d.day \in {1, 2, 15}
        \/ d.day >= days_in_month(d.year, d.month) - 1}

\* midnight and an afternoon
GroupClocks == {<<0, 0, 0>>, <<13, 45, 30>>}

\* pandas Timestamps: the Gregorian date of a Jalali date, with a time of day
GroupInputs ==
    {LET g == jd_togregorian(d.year, d.month, d.day)
     IN  Stamp(g.year, g.month, g.day, c[1], c[2], c[3], 0, 0, "none") :
        d \in GroupDates, c \in GroupClocks}

GroupInit ==
    /\ gindex \in {<<a, b>> : a \in GroupInputs, b \in GroupInputs}
    /\ goff \in {Offset(k, 1, FALSE, 0) : k \in {"JME", "JQE", "JYE"}}
    /\ glabels = <<>>
    /\ CoreIdle /\ StrIdle /\ BatchIdle /\ RangeIdle
    /\ RegIdle /\ NameIdle

\* _compute_groups: the loop over the index
GroupCompute ==
    /\ glabels = <<>>
    /\ glabels' = [i \in DOMAIN gindex |-> group_label(goff, gindex[i])]
    /\ UNCHANGED <<gindex, goff>>
    /\ UNCHANGED <<coreVars, strVars, batchVars, rangeVars, regVars, nameVars>>

GroupNext == GroupCompute

SpecGroup == GroupInit /\ [][GroupNext]_vars

\* the Jalali date of an element of the index
JalaliOf(g) == jd_fromgregorian(g.year, g.month, g.day)

SamePeriod(kind, a, b) ==
    /\ a.year = b.year
    /\ kind = "JME" => a.month = b.month
    /\ kind = "JQE" => (a.month - 1) \div 3 = (b.month - 1) \div 3

(***************************************************************************)
(* C28: two timestamps in the same Jalali month, on any days and at any    *)
(* times of day, get the same group label under JME; likewise the same     *)
(* quarter under JQE and the same year under JYE.                          *)
(***************************************************************************)
C28_PeriodInOneGroup ==
    (/\ glabels # <<>>
     /\ SamePeriod(goff.kind, JalaliOf(gindex[1]), JalaliOf(gindex[2])))
    => glabels[1] = glabels[2]

(***************************************************************************)
(* offsets/aliases.py: the registry and its two lookups.                   *)
(***************************************************************************)
\* register_jalali_alias(alias, offset_class) on the two tables: each dict
\* assignment replaces the entry of its own key and touches no other entry
register_jalali_alias(tables, alias, offset_class) ==
    [aliases |->
        {e \in tables.aliases : e.alias # alias}
        \cup {[alias |-> alias, class |-> offset_class]},
     to_alias |->
        {e \in tables.to_alias : e.class # offset_class}
        \cup {[class |-> offset_class, alias |-> alias]}]

\* _JALALI_OFFSET_ALIASES.get(alias)
lookup_offset(aliases, alias) ==
    IF \E e \in aliases : e.alias = alias
    THEN (CHOOSE e \in aliases : e.alias = alias).class
    ELSE "None"

\* _JALALI_OFFSET_TO_ALIAS.get(offset_class)
lookup_alias(to_alias, offset_class) ==
    IF \E e \in to_alias : e.class = offset_class
    THEN (CHOOSE e \in to_alias : e.class = offset_class).alias
    ELSE <<>>

\* the calls made while jalali_pandas.offsets is imported
DefaultRegistrations ==
    <<[alias |-> <<"J", "M", "E">>, class |-> "JME"],
      [alias |-> <<"J", "M", "S">>, class |-> "JMS"],
      [alias |-> <<"J", "Q", "E">>, class |-> "JQE"],
      [alias |-> <<"J", "Q", "S">>, class |-> "JQS"],
      [alias |-> <<"J", "Y", "E">>, class |-> "JYE"],
      [alias |-> <<"J", "Y", "S">>, class |-> "JYS"],
      [alias |-> <<"J", "W">>, class |-> "JW"],
      [alias |-> <<"J", "W">>, class |-> "JW"]>>

RECURSIVE register_all(_, _)
register_all(tables, calls) ==
    IF calls = <<>> THEN tables
    ELSE register_all(register_jalali_alias(tables, Head(calls).alias,
                                            Head(calls).class),
                      Tail(calls))

(***************************************************************************)
(* SpecReg: aliases are registered, one call after another, starting from  *)
(* the default registrations.                                              *)
(***************************************************************************)
\* three registered aliases and one that is new
RegAliases == {<<"J", "M", "E">>, <<"J", "M", "S">>, <<"J", "W">>,
               <<"J", "X">>}

\* three registered classes and one that is new
RegClasses == {"JME", "JMS", "JW", "Custom"}

RegInit ==
    /\ LET tables == register_all([aliases |-> {}, to_alias |-> {}],
                                  DefaultRegistrations)
       IN  /\ offset_aliases = tables.aliases
           /\ offset_to_alias = tables.to_alias
    /\ CoreIdle /\ StrIdle /\ BatchIdle /\ RangeIdle /\ GroupIdle /\ NameIdle

RegRegister ==
    /\ \E alias \in RegAliases, offset_class \in RegClasses :
          LET tables == register_jalali_alias(
                            [aliases |-> offset_aliases,
                             to_alias |-> offset_to_alias],
                            alias, offset_class)
          IN  /\ offset_aliases' = tables.aliases
              /\ offset_to_alias' = tables.to_alias
    /\ UNCHANGED <<coreVars, strVars, batchVars, rangeVars, groupVars,
                   nameVars>>

RegNext == RegRegister

SpecReg == RegInit /\ [][RegNext]_vars

(***************************************************************************)
(* C29: the registry is a consistent two-way mapping: for every class c    *)
(* with get_jalali_alias(c) = a, get_jalali_offset(a) is c.                *)
(***************************************************************************)
C29_RegistryTwoWay ==
    \A e \in offset_to_alias :
        lookup_offset(offset_aliases,
                      lookup_alias(offset_to_alias, e.class)) = e.class

(***************************************************************************)
(* offsets/base.py: name and freqstr.                                      *)
(***************************************************************************)
\* the class attribute _prefix of each offset class
prefix(kind) ==
    CASE kind = "JMS" -> <<"J", "M", "S">>
      [] kind = "JME" -> <<"J", "M", "E">>
      [] kind = "JQS" -> <<"J", "Q", "S">>
      [] kind = "JQE" -> <<"J", "Q", "E">>
      [] kind = "JYS" -> <<"J", "Y", "S">>
      [] kind = "JYE" -> <<"J", "Y", "E">>
      [] kind = "JW" -> <<"J", "W">>

\* str(n) of an int n >= 0, as an f-string writes it
RECURSIVE str_int(_)
str_int(n) ==
    IF n < 10 THEN <<DigitChar(n)>>
    ELSE str_int(n \div 10) \o <<DigitChar(n % 10)>>

\* JalaliOffset.name: f"{self._prefix}{abs(self._n)}"
name(o) == prefix(o.kind) \o str_int(IF o.n < 0 THEN 0 - o.n ELSE o.n)

\* JalaliOffset.freqstr
freqstr(o) == name(o)

(***************************************************************************)
(* SpecName: the freqstr of an offset is taken and parsed.                 *)
(***************************************************************************)
\* the offsets' n: -MaxFreqN .. MaxFreqN without 0
MaxFreqN == 12

NameOffsets ==
    {Offset(k, n, FALSE, 0) :
        k \in PeriodKinds \cup {"JW"},
        n \in ((0 - MaxFreqN) .. MaxFreqN) \ {0}}

NameInit ==
    /\ noff \in NameOffsets
    /\ nstr = <<>>
    /\ nparsed = NotParsed
    /\ CoreIdle /\ StrIdle /\ BatchIdle /\ RangeIdle /\ GroupIdle /\ RegIdle

\* offset.freqstr
NameFormat ==
    /\ nstr = <<>>
    /\ nstr' = freqstr(noff)
    /\ UNCHANGED <<noff, nparsed>>
    /\ UNCHANGED <<coreVars, strVars, batchVars, rangeVars, groupVars,
                   regVars>>

\* parse_jalali_frequency(offset.freqstr)
NameParse ==
    /\ nstr # <<>> /\ nparsed = NotParsed
    /\ nparsed' = parse_jalali_frequency(nstr)
    /\ UNCHANGED <<noff, nstr>>
    /\ UNCHANGED <<coreVars, strVars, batchVars, rangeVars, groupVars,
                   regVars>>

NameNext == NameFormat \/ NameParse

SpecName == NameInit /\ [][NameNext]_vars

(***************************************************************************)
(* C30: for every registered offset class and every n # 0, parsing the     *)
(* offset's freqstr succeeds and returns an offset of the same class and   *)
(* the same n.                                                             *)
(***************************************************************************)
C30_FreqstrRoundTrip ==
    nparsed # NotParsed =>
        /\ nparsed.status = "ok"
        /\ nparsed.off.kind = noff.kind
        /\ nparsed.off.n = noff.n

====
